---- MODULE Spec2Model ----
(***************************************************************************)
(* Model of the lister file catalog: the transactional index writer        *)
(* (CommandRepository), the query repository and query services, the       *)
(* single-slot page cache and the read page's message handlers.            *)
(*                                                                         *)
(* Strings that are only compared are TLA+ strings; file paths and search  *)
(* queries, which are matched with SQL LIKE, are sequences of one-letter   *)
(* strings.  Tables are sequences of rows in insertion (rowid) order.      *)
(***************************************************************************)
EXTENDS Integers, Sequences, FiniteSets, TLC

VARIABLES
    \* the store (infrastructure/database/schema.rs)
    file_categories, drive_entries, file_entries,
    \* outcome of the latest write operation, as returned to its caller
    last,
    \* the Cache component (ui/components/read/cache.rs)
    cache,
    \* the latest query and what it returned to its caller
    resp,
    \* a caller that runs [remove_duplicates; save] twice: its position, its
    \* arguments and the file counts it observed after each pair
    dedup,
    \* the fields of ReadPage (ui/pages/read_page.rs)
    read_page,
    \* the loads that load_current_page has started and that have not yet
    \* delivered FilesLoaded; stale marks a load that a later request superseded
    tasks,
    \* what the latest message to the read page was and did
    read_event,
    \* the fields of the Pagination component (ui/components/read/pagination.rs),
    \* with the latest call and what it returned
    pagination,
    \* the write transaction that is open on a connection of the pool: its
    \* position, its arguments and the rows as that connection sees them
    tx,
    \* the write operations that run at the same time, each on a pooled
    \* connection of its own (infrastructure/database/pool.rs)
    writers,
    \* the read operations that run at the same time: each waits for a pooled
    \* connection, runs its query on it and gives it back
    readers,
    \* the directory tree the scanner walks and what the latest scan returned
    scan,
    \* ListerApp: the page that is shown, and the error dialogs shown so far
    app,
    \* the fields of WritePage (ui/pages/write_page.rs)
    write_page,
    \* the tasks the write page has started and that have not yet delivered
    \* their message
    write_tasks

storeVars == <<file_categories, drive_entries, file_entries>>
queryVars == <<cache, resp>>
readVars  == <<read_page, tasks, read_event, pagination>>
\* the threads that use the connection pool at the same time
poolVars == <<writers, readers>>
\* the scanner, the application shell and the write page
indexVars == <<scan, app, write_page, write_tasks>>
vars == <<file_categories, drive_entries, file_entries, last, cache, resp, dedup,
          read_page, tasks, read_event, pagination, tx, poolVars, indexVars>>

-----------------------------------------------------------------------------
(* Bounds of the model *)

\* the largest number of file_entries rows a Save may grow the table to
MaxFiles == 2
\* the largest number of drive_entries rows a Save may grow the table to
MaxDrives == 2
\* the largest page index a query asks for
MaxPage == 2
\* the largest number of loads one ReadPage starts
MaxTasks == 3
\* the threads that read at the same time
MaxReaders == 3
\* the connections of the pool (r2d2's default max_size, scaled down)
PoolSize == 2
\* the indexing runs the write page starts
MaxRuns == 2
\* config/constants.rs ITEMS_PER_PAGE (100) and CACHED_SIZE (10000), scaled
ITEMS_PER_PAGE == 2
CACHED_SIZE == 3
\* i64::MAX, scaled to the integers of the model
I64_MAX == 1000
\* u64::MAX on the same scale
U64_MAX == 2 * I64_MAX + 1
\* the largest size of a scanned file
MaxSize == 1
\* the drive rows of the catalogs whose names are listed
MaxNameRows == 3
\* the largest total_count a Pagination is given
MaxTotal == 5

Categories == {"Work", "Home"}
DriveNames == {"Disk1", "Disk2"}
Spaces     == {1, 2}
Paths      == {<<"a">>, <<"a", "b">>, <<"b", "a">>}
FileEntry(p, s) == [path |-> p, size_bytes |-> s]
\* the batches of scanned records handed to save
Batches == { <<>>,
             <<FileEntry(<<"a">>, 1)>>,
             <<FileEntry(<<"a", "b">>, 1), FileEntry(<<"b", "a">>, 2)>> }

-----------------------------------------------------------------------------
(* Generic helpers on sequences *)

Range(s) == { s[i] : i \in DOMAIN s }

RECURSIVE SelectIdx(_, _, _)
\* the indices i >= from of s, in order, for which keep[i] holds
SelectIdx(n, keep, from) ==
    IF from > n THEN <<>>
    ELSE IF keep[from] THEN <<from>> \o SelectIdx(n, keep, from + 1)
    ELSE SelectIdx(n, keep, from + 1)

\* the rows of table t that satisfy Test, in table order
Filter(t, Test(_)) ==
    LET keep == [i \in DOMAIN t |-> Test(t[i])]
        idx  == SelectIdx(Len(t), keep, 1)
    IN  [k \in DOMAIN idx |-> t[idx[k]]]

Min(a, b) == IF a <= b THEN a ELSE b

-----------------------------------------------------------------------------
(* The store as one value, and the result of a fallible step *)

Store(c, d, f) ==
    [file_categories |-> c, drive_entries |-> d, file_entries |-> f]

CurrentStore == Store(file_categories, drive_entries, file_entries)

EmptyStore == Store(<<>>, <<>>, <<>>)

\* Uuid::new_v4() as primary key of a new row: an id that no row of the table
\* carries (the least one, which keeps the ids of the model bounded)
FreshId(table) ==
    CHOOSE n \in 1..(Len(table) + 1) :
        /\ \A r \in Range(table) : r.id # n
        /\ \A m \in 1..(n - 1) : \E r \in Range(table) : r.id = m

\* the three tables the writer owns
Tables(st) == <<st.file_categories, st.drive_entries, st.file_entries>>

Ok(st, v)  == [ok |-> TRUE,  st |-> st, val |-> v]
Err(st)    == [ok |-> FALSE, st |-> st, val |-> 0]

\* the points at which a write can fail
FailPoints == {"none", "connection", "category", "drive", "update", "files0", "files1",
               "delete"}

-----------------------------------------------------------------------------
(* infrastructure/database/conversion.rs *)

\* a conversion that keeps the bits of the reading (`as i64`)
to_i64_wrapping(v) == IF v <= I64_MAX THEN v ELSE v - (U64_MAX + 1)

\* i64::try_from(u64).unwrap_or(0)
to_i64_or_zero(v) == IF v <= I64_MAX THEN v ELSE 0

\* u64::try_from(i64).unwrap_or(0)
to_u64_or_zero(v) == IF v >= 0 THEN v ELSE 0

-----------------------------------------------------------------------------
(* CommandRepository *)

\* first row of a table that satisfies Test (diesel .first()), or the empty sequence
FirstWhere(t, Test(_)) == Filter(t, Test)

\* a save_category that inserts a row without looking for the name first
save_category_always_insert(st, category_name, fail) ==
    IF fail = "category" THEN Err(st)
    ELSE Ok([st EXCEPT !.file_categories =
                    Append(@, [id |-> FreshId(@), name |-> category_name])],
            FreshId(st.file_categories))

save_category(st, category_name, fail) ==
    LET existing == FirstWhere(st.file_categories, LAMBDA r : r.name = category_name)
    IN  IF existing # <<>> THEN Ok(st, existing[1].id)
        ELSE IF fail = "category" THEN Err(st)
        ELSE Ok([st EXCEPT !.file_categories =
                        Append(@, [id |-> FreshId(@), name |-> category_name])],
                FreshId(st.file_categories))

update_same_drives_available_space(st, drive, fail) ==
    IF fail = "update" THEN Err(st)
    ELSE Ok([st EXCEPT !.drive_entries =
                    [i \in DOMAIN @ |->
                        IF @[i].name = drive.name
                        THEN [@[i] EXCEPT !.available_space =
                                            to_i64_or_zero(drive.available_space)]
                        ELSE @[i]]],
            0)

save_drive(st, drive, category_id, fail) ==
    LET existing == FirstWhere(st.drive_entries,
                        LAMBDA r : r.name = drive.name /\ r.category_id = category_id)
    IN  IF existing # <<>> THEN Ok(st, existing[1].id)
        ELSE IF fail = "drive" THEN Err(st)
        ELSE LET drive_id == FreshId(st.drive_entries)
                 inserted == [st EXCEPT !.drive_entries =
                                 Append(@, [id |-> drive_id,
                                            category_id |-> category_id,
                                            name |-> drive.name,
                                            available_space |->
                                                to_i64_or_zero(drive.available_space),
                                            insertion_time |-> Len(@) + 1])]
                 updated  == update_same_drives_available_space(inserted, drive, fail)
             IN  IF updated.ok THEN Ok(updated.st, drive_id) ELSE Err(updated.st)

RECURSIVE InsertFiles(_, _, _)
\* the rows of the batch inserted one after the other, each with a fresh id
InsertFiles(st, files, drive_id) ==
    IF files = <<>> THEN st
    ELSE InsertFiles(
            [st EXCEPT !.file_entries =
                    Append(@, [id |-> FreshId(@), drive_id |-> drive_id,
                               path |-> Head(files).path,
                               weight |-> to_i64_or_zero(Head(files).size_bytes)])],
            Tail(files), drive_id)

\* a save_files that returns the number of rows stored after the insert
save_files_returns_total(st, files, drive_id, fail) ==
    IF fail = "files0" THEN Err(st)
    ELSE IF fail = "files1"
    THEN Err(InsertFiles(st, SubSeq(files, 1, Min(1, Len(files))), drive_id))
    ELSE Ok(InsertFiles(st, files, drive_id),
            Len(InsertFiles(st, files, drive_id).file_entries))

\* the bulk insert fails before the first row ("files0") or after it ("files1")
save_files(st, files, drive_id, fail) ==
    IF fail = "files0" THEN Err(st)
    ELSE IF fail = "files1"
    THEN Err(InsertFiles(st, SubSeq(files, 1, Min(1, Len(files))), drive_id))
    ELSE Ok(InsertFiles(st, files, drive_id), Len(files))

\* a delete whose subquery joins the drive to the file's own id
do_remove_duplicates_wrong_join(st, category_name, drive_name, fail) ==
    IF fail = "delete" THEN Err(st)
    ELSE LET Owned(f) ==
                \E d \in Range(st.drive_entries) :
                \E c \in Range(st.file_categories) :
                    /\ d.category_id = c.id
                    /\ d.id = f.id
                    /\ c.name = category_name
                    /\ d.name = drive_name
         IN  Ok([st EXCEPT !.file_entries = Filter(@, LAMBDA f : ~Owned(f))], 0)

\* a delete that stops after the first row it removed
do_remove_duplicates_first_only(st, category_name, drive_name, fail) ==
    IF fail = "delete" THEN Err(st)
    ELSE LET Owned(f) ==
                \E d \in Range(st.drive_entries) :
                \E c \in Range(st.file_categories) :
                    /\ d.category_id = c.id
                    /\ d.id = f.drive_id
                    /\ c.name = category_name
                    /\ d.name = drive_name
             owned == Filter(st.file_entries, Owned)
         IN  Ok([st EXCEPT !.file_entries =
                    Filter(@, LAMBDA f : owned = <<>> \/ f # owned[1])], 0)

\* a delete whose subquery forgets the category
do_remove_duplicates_any_category(st, category_name, drive_name, fail) ==
    IF fail = "delete" THEN Err(st)
    ELSE LET Owned(f) ==
                \E d \in Range(st.drive_entries) :
                    /\ d.id = f.drive_id
                    /\ d.name = drive_name
         IN  Ok([st EXCEPT !.file_entries = Filter(@, LAMBDA f : ~Owned(f))], 0)

do_remove_duplicates(st, category_name, drive_name, fail) ==
    IF fail = "delete" THEN Err(st)
    ELSE LET Owned(f) ==
                \E d \in Range(st.drive_entries) :
                \E c \in Range(st.file_categories) :
                    /\ d.category_id = c.id
                    /\ d.id = f.drive_id
                    /\ c.name = category_name
                    /\ d.name = drive_name
         IN  Ok([st EXCEPT !.file_entries = Filter(@, LAMBDA f : ~Owned(f))], 0)

\* a transaction that commits whatever was written, even on Err
execute_in_transaction_no_rollback(st, fail, r) ==
    IF fail = "connection" THEN Err(st) ELSE r

\* pool.rs: get_connection()?, then immediate_transaction: commit on Ok,
\* roll back to the state at BEGIN on Err
execute_in_transaction(st, fail, r) ==
    IF fail = "connection" THEN Err(st)
    ELSE IF r.ok THEN r ELSE Err(st)

\* the closure of CommandRepository::save
save_closure(st, category_name, drive, files, fail) ==
    LET c == save_category(st, category_name, fail)
    IN  IF ~c.ok THEN c
        ELSE LET d == save_drive(c.st, drive, c.val, fail)
             IN  IF ~d.ok THEN d
                 ELSE save_files(d.st, files, d.val, fail)

save(st, category_name, drive, files, fail) ==
    execute_in_transaction(st, fail,
        save_closure(st, category_name, drive, files, fail))

remove_duplicates(st, category_name, drive_name, fail) ==
    execute_in_transaction(st, fail,
        do_remove_duplicates(st, category_name, drive_name, fail))

Drive(name, space) == [name |-> name, available_space |-> space]

-----------------------------------------------------------------------------
(* QueryRepository *)

\* Option<T>: None is the empty sequence, Some(x) the sequence <<x>>
None == <<>>
Some(x) == <<x>>

RECURSIVE Replace(_, _, _)
\* str::replace for one-letter patterns
Replace(str, from, to) ==
    IF str = <<>> THEN <<>>
    ELSE <<IF Head(str) = from THEN to ELSE Head(str)>> \o Replace(Tail(str), from, to)

\* a pattern that keeps the spaces of the query
search_pattern_keep_spaces(query) == <<"%">> \o query \o <<"%">>

\* format!("%{query}%").replace(' ', "_")
search_pattern(query) == Replace(<<"%">> \o query \o <<"%">>, " ", "_")

\* the store compares the ASCII letters of LIKE operands without regard to case
ascii_lower(ch) ==
    CASE ch = "A" -> "a"
      [] ch = "B" -> "b"
      [] OTHER -> ch

RECURSIVE Like(_, _)
\* SQL LIKE: % matches any run of characters, _ any one character, a letter
\* matches itself in either case
Like(text, pattern) ==
    IF pattern = <<>> THEN text = <<>>
    ELSE IF Head(pattern) = "%"
         THEN Like(text, Tail(pattern)) \/ (text # <<>> /\ Like(Tail(text), pattern))
    ELSE /\ text # <<>>
         /\ Head(pattern) = "_" \/ ascii_lower(Head(pattern)) = ascii_lower(Head(text))
         /\ Like(Tail(text), Tail(pattern))

\* file_entries INNER JOIN drive_entries INNER JOIN file_categories, one joined
\* row per file row, in the order of the file_entries table
JoinedRows(st) ==
    LET Joins(f) == \E d \in Range(st.drive_entries) :
                        /\ d.id = f.drive_id
                        /\ \E c \in Range(st.file_categories) : c.id = d.category_id
        fs == Filter(st.file_entries, Joins)
    IN  [i \in DOMAIN fs |->
            LET d == CHOOSE d \in Range(st.drive_entries) : d.id = fs[i].drive_id
                c == CHOOSE c \in Range(st.file_categories) : c.id = d.category_id
            IN  [file |-> fs[i], drive |-> d, category |-> c]]

\* the joined rows that pass the optional drive filter and the optional LIKE filter
MatchingRows(st, selected_drive, query) ==
    Filter(JoinedRows(st),
           LAMBDA r :
              /\ selected_drive # None => r.drive.name = selected_drive[1]
              /\ query # None => Like(r.file.path, search_pattern(query[1])))

RECURSIVE Drop(_, _)
Drop(rows, n) == IF n <= 0 \/ rows = <<>> THEN rows ELSE Drop(Tail(rows), n - 1)

RECURSIVE Take(_, _)
Take(rows, n) == IF n <= 0 \/ rows = <<>> THEN <<>>
                 ELSE <<Head(rows)>> \o Take(Tail(rows), n - 1)

\* SELECT ... LIMIT limit OFFSET offset
LimitOffset(rows, limit, offset) == Take(Drop(rows, offset), limit)

\* From<FileWithMetadataDto> for FileWithMetadata
FileWithMetadata(r) ==
    [category_name |-> r.category.name,
     drive_name |-> r.drive.name,
     drive_available_space |-> to_u64_or_zero(r.drive.available_space),
     drive_insertion_time |-> r.drive.insertion_time,
     path |-> r.file.path,
     size_bytes |-> to_u64_or_zero(r.file.weight)]

MapRows(rows, F(_)) == [i \in DOMAIN rows |-> F(rows[i])]

\* the rows count_search_results counts: file_entries INNER JOIN drive_entries,
\* with the optional drive filter and the optional LIKE filter
CountedRows(st, selected_drive, query) ==
    Filter(st.file_entries,
           LAMBDA f :
              /\ \E d \in Range(st.drive_entries) :
                    /\ d.id = f.drive_id
                    /\ selected_drive # None => d.name = selected_drive[1]
              /\ query # None => Like(f.path, search_pattern(query[1])))

\* a count that forgets the drive filter
count_search_results_any_drive(st, selected_drive, query) ==
    to_u64_or_zero(Len(CountedRows(st, None, query)))

count_search_results(st, selected_drive, query) ==
    to_u64_or_zero(Len(CountedRows(st, selected_drive, query)))

\* the file rows selected by search_files_paginated, before their conversion
search_rows_paginated(st, selected_drive, query, offset, limit) ==
    LimitOffset(MatchingRows(st, selected_drive, query),
                to_i64_or_zero(limit), to_i64_or_zero(offset))

search_files_paginated(st, selected_drive, query, offset, limit) ==
    MapRows(search_rows_paginated(st, selected_drive, query, offset, limit),
            FileWithMetadata)

\* the binary collation of the drive names of the model
NameLeq(x, y) ==
    LET rank == [n \in DriveNames |-> IF n = "Disk1" THEN 1 ELSE 2]
    IN  rank[x] <= rank[y]

\* SELECT DISTINCT name FROM drive_entries ORDER BY name
RECURSIVE SortNames(_)
SortNames(S) ==
    IF S = {} THEN <<>>
    ELSE LET m == CHOOSE x \in S : \A y \in S : NameLeq(x, y)
         IN  <<m>> \o SortNames(S \ {m})

\* a query without DISTINCT: the name of every row, in order
find_all_drive_names_every_row(st) ==
    LET names  == SortNames({ d.name : d \in Range(st.drive_entries) })
        rows   == st.drive_entries
        upto[k \in 0..Len(names)] ==
            IF k = 0 THEN <<>>
            ELSE upto[k - 1]
                   \o [i \in 1..Cardinality({ j \in DOMAIN rows : rows[j].name = names[k] })
                         |-> names[k]]
    IN  upto[Len(names)]

find_all_drive_names(st) == SortNames({ d.name : d \in Range(st.drive_entries) })

-----------------------------------------------------------------------------
(* application::FileQueryService *)

get_search_count(st, selected_drive, query) ==
    count_search_results(st, selected_drive, query)

\* a page computed with an offset that skips one row more per page
search_rows_skipping(st, selected_drive, query, page, page_size) ==
    search_rows_paginated(st, selected_drive, query, page * (page_size + 1), page_size)

\* the rows selected for the items of search_files
search_rows(st, selected_drive, query, page, page_size) ==
    LET offset == page * page_size
        limit  == page_size
    IN  search_rows_paginated(st, selected_drive, query, offset, limit)

search_files(st, selected_drive, query, page, page_size) ==
    MapRows(search_rows(st, selected_drive, query, page, page_size), FileWithMetadata)

-----------------------------------------------------------------------------
(* domain::services::FileQueryService, over the repository without drive filter *)

PaginatedResult(items, total_count) == [items |-> items, total_count |-> total_count]

\* a service that reports the length of the returned page as total_count
FileQueryService_search_files_page_count(st, query, page, page_size) ==
    LET items == search_files_paginated(st, None, Some(query), page * page_size,
                                        page_size)
    IN  PaginatedResult(items, Len(items))

FileQueryService_search_files(st, query, page, page_size) ==
    LET offset == page * page_size
        limit  == page_size
        count  == count_search_results(st, None, Some(query))
    IN  IF count <= CACHED_SIZE
        THEN LET all   == search_files_paginated(st, None, Some(query), 0, count)
                 start == offset
                 end   == Min(start + page_size, Len(all))
             IN  PaginatedResult(IF start < Len(all) THEN SubSeq(all, start + 1, end)
                                 ELSE <<>>,
                                 count)
        ELSE PaginatedResult(
                search_files_paginated(st, None, Some(query), offset, limit), count)

\* find_files_paginated: every file, no filter
FileQueryService_list_files(st, page, page_size) ==
    PaginatedResult(search_files_paginated(st, None, None, page * page_size, page_size),
                    Len(st.file_entries))

-----------------------------------------------------------------------------
(* ui::components::read::Cache *)

Cache_new == [drive |-> None, query |-> None, results |-> None]

Cache_clear(c) == [drive |-> None, query |-> None, results |-> None]

Cache_store(c, drive, query, results) ==
    [drive |-> drive, query |-> Some(query), results |-> Some(results)]

\* a validity test that forgets the drive filter
is_valid_for_any_drive(c, selected_drive, query) ==
    c.query = Some(query)

is_valid_for(c, selected_drive, query) ==
    c.drive = selected_drive /\ c.query = Some(query)

\* a slice that starts one item late
get_page_shifted(c, selected_drive, query, page_index, items_per_page) ==
    IF is_valid_for(c, selected_drive, query) /\ c.results # None
    THEN LET results == c.results[1]
             start   == page_index * items_per_page + 1
         IN  IF start < Len(results)
             THEN Some(SubSeq(results, start + 1,
                              Min(start + items_per_page, Len(results))))
             ELSE None
    ELSE None

get_page(c, selected_drive, query, page_index, items_per_page) ==
    IF is_valid_for(c, selected_drive, query) /\ c.results # None
    THEN LET results == c.results[1]
             start   == page_index * items_per_page
         IN  IF start < Len(results)
             THEN Some(SubSeq(results, start + 1,
                              Min(start + items_per_page, Len(results))))
             ELSE None
    ELSE None

-----------------------------------------------------------------------------
(* ui::pages::ReadPage *)

\* an update returns the page as it left it and the load it started, if any
Updated(page, task) == [page |-> page, task |-> task]

\* str::parse::<usize>() of the page-number input
ParseUsize(str) ==
    CASE str = "1" -> Some(1)
      [] str = "2" -> Some(2)
      [] str = "3" -> Some(3)
      [] OTHER -> None

saturating_sub(a, b) == IF a >= b THEN a - b ELSE 0

total_pages(p) ==
    IF p.total_count = 0 THEN 1
    ELSE (p.total_count + ITEMS_PER_PAGE - 1) \div ITEMS_PER_PAGE

load_current_page(p) ==
    LET start == p.current_page_index * ITEMS_PER_PAGE
        hit   == /\ p.cached_results # None
                 /\ p.cached_query # None
                 /\ p.cached_query[1] = p.search_query
                 /\ start < Len(p.cached_results[1])
    IN  IF hit
        THEN LET cached == p.cached_results[1]
                 end    == Min(start + ITEMS_PER_PAGE, Len(cached))
             IN  Updated([p EXCEPT !.current_files = SubSeq(cached, start + 1, end)],
                         None)
        ELSE LET dropped == IF p.cached_query # None /\ p.cached_query[1] # p.search_query
                            THEN [p EXCEPT !.cached_results = None, !.cached_query = None]
                            ELSE p
                 task_id == p.active_task_id + 1
             IN  Updated([dropped EXCEPT !.active_task_id = task_id],
                         Some([task_id |-> task_id,
                               search_query |-> p.search_query,
                               page |-> p.current_page_index]))

\* the future of Task::perform: what the load returns when it runs on store st
LoadResult(st, task) ==
    IF task.search_query = <<>>
    THEN FileQueryService_list_files(st, task.page, ITEMS_PER_PAGE)
    ELSE FileQueryService_search_files(st, task.search_query, task.page, ITEMS_PER_PAGE)

navigate_to_page(p, page_index) ==
    load_current_page([p EXCEPT !.current_page_index = page_index])

previous_page(p) == navigate_to_page(p, saturating_sub(p.current_page_index, 1))

next_page(p) ==
    IF p.current_page_index + 1 < total_pages(p)
    THEN navigate_to_page(p, p.current_page_index + 1)
    ELSE Updated(p, None)

process_new_search(p) == load_current_page([p EXCEPT !.current_page_index = 0])

process_page_input(p) ==
    LET parsed == ParseUsize(p.page_input_value)
    IN  IF parsed # None /\ parsed[1] > 0 /\ parsed[1] <= total_pages(p)
        THEN navigate_to_page(p, parsed[1] - 1)
        ELSE Updated(p, None)

process_loaded_files(p, result) ==
    IF /\ result.total_count <= CACHED_SIZE
       /\ p.search_query # <<>>
       /\ p.current_page_index = 0
    THEN LET start == p.current_page_index * ITEMS_PER_PAGE
             end   == Min(start + ITEMS_PER_PAGE, Len(result.items))
         IN  [p EXCEPT !.cached_results = Some(result.items),
                       !.cached_query = Some(p.search_query),
                       !.current_files = SubSeq(result.items, start + 1, end),
                       !.total_count = result.total_count]
    ELSE [p EXCEPT !.current_files = result.items,
                   !.total_count = result.total_count]

handle_files_loaded(p, task_id, result) ==
    IF task_id # p.active_task_id THEN p ELSE process_loaded_files(p, result)

handle_left(p, shift) ==
    IF p.current_page_index > 0
    THEN IF shift THEN navigate_to_page(p, 0) ELSE previous_page(p)
    ELSE Updated(p, None)

handle_right(p, shift) ==
    IF p.current_page_index < saturating_sub(total_pages(p), 1)
    THEN IF shift THEN navigate_to_page(p, saturating_sub(total_pages(p), 1))
         ELSE next_page(p)
    ELSE Updated(p, None)

\* ReadPage::new, before its first load_current_page; submitted keeps the
\* search text of the last SearchSubmit or SearchClear (the empty text of
\* the first load before any)
NewReadPage ==
    [search_query |-> <<>>, current_files |-> <<>>, cached_query |-> None,
     cached_results |-> None, page_input_value |-> "", total_count |-> 0,
     current_page_index |-> 0, active_task_id |-> 0, submitted |-> <<>>]

NoEvent == [kind |-> "none", live |-> FALSE, in_range |-> FALSE, over |-> FALSE,
            stale |-> FALSE]

-----------------------------------------------------------------------------
(* ui::components::read::Pagination; op and ret record the latest call *)

Pagination_new(items_per_page) ==
    [total_count |-> 0, current_page_index |-> 0, page_input_value |-> "",
     items_per_page |-> items_per_page, op |-> "new", ret |-> None]

\* total_count.div_ceil(items_per_page), and 1 for an empty result
Pagination_total_pages(self) ==
    IF self.total_count = 0 THEN 1
    ELSE (self.total_count + self.items_per_page - 1) \div self.items_per_page

\* a navigate_to that also accepts the index one past the last page
Pagination_navigate_to_inclusive(self, page_index) ==
    IF page_index <= Pagination_total_pages(self)
    THEN [self EXCEPT !.current_page_index = page_index, !.ret = Some(page_index)]
    ELSE [self EXCEPT !.ret = None]

Pagination_navigate_to(self, page_index) ==
    IF page_index < Pagination_total_pages(self)
    THEN [self EXCEPT !.current_page_index = page_index, !.ret = Some(page_index)]
    ELSE [self EXCEPT !.ret = None]

Pagination_first_page(self) == Pagination_navigate_to(self, 0)

\* total_pages().saturating_sub(1)
Pagination_last_page(self) ==
    LET n == Pagination_total_pages(self)
    IN  Pagination_navigate_to(self, IF n >= 1 THEN n - 1 ELSE 0)

Pagination_next(self) ==
    IF self.current_page_index + 1 < Pagination_total_pages(self)
    THEN [self EXCEPT !.current_page_index = @ + 1,
                      !.ret = Some(self.current_page_index + 1)]
    ELSE [self EXCEPT !.ret = None]

Pagination_prev(self) ==
    IF self.current_page_index > 0
    THEN [self EXCEPT !.current_page_index = @ - 1,
                      !.ret = Some(self.current_page_index - 1)]
    ELSE [self EXCEPT !.ret = None]

Pagination_reset(self) ==
    [self EXCEPT !.current_page_index = 0, !.page_input_value = "", !.ret = None]

Pagination_clear(self) == Pagination_reset([self EXCEPT !.total_count = 0])

\* no read page is shown
ReadPageClosed ==
    /\ read_page = NewReadPage
    /\ tasks = {}
    /\ read_event = NoEvent
    /\ pagination = Pagination_new(ITEMS_PER_PAGE)

-----------------------------------------------------------------------------
(* The write operations as actions *)

(* application/directory_scanner.rs *)

\* a path is the sequence of its components; "/" is the first component of an
\* absolute path
IsPrefix(p, q) == Len(p) <= Len(q) /\ SubSeq(q, 1, Len(p)) = p

\* Path::strip_prefix: the components after base, or StripPrefixError
strip_prefix(file_path, base) ==
    IF IsPrefix(base, file_path)
    THEN Some(SubSeq(file_path, Len(base) + 1, Len(file_path)))
    ELSE None

\* to_string_lossy: the components joined by the separator, as the characters
\* of the string
RECURSIVE to_string_lossy(_)
to_string_lossy(p) ==
    IF p = <<>> THEN <<>>
    ELSE IF Len(p) = 1 THEN <<p[1]>>
    ELSE <<p[1], "/">> \o to_string_lossy(Tail(p))

ScanOk(v)  == [ok |-> TRUE, val |-> v, err |-> "none"]
ScanErr(e) == [ok |-> FALSE, val |-> <<>>, err |-> e]

relative_path(base_directory, file_path) ==
    LET relative == strip_prefix(file_path, base_directory)
    IN  IF relative = None THEN ScanErr("RelativePath")
        ELSE ScanOk(to_string_lossy(relative[1]))

extract_file_info(base_directory, entry) ==
    IF entry.meta = "err" THEN ScanErr("FileMetadata")
    ELSE LET path == relative_path(base_directory, entry.path)
         IN  IF ~path.ok THEN path
             ELSE ScanOk(FileEntry(path.val, entry.len))

\* collect::<Result<Vec<_>, _>>(): the records in order, or the first error
RECURSIVE collect(_)
collect(results) ==
    IF results = <<>> THEN ScanOk(<<>>)
    ELSE IF ~Head(results).ok THEN Head(results)
    ELSE LET rest == collect(Tail(results))
         IN  IF ~rest.ok THEN rest
             ELSE ScanOk(<<Head(results).val>> \o rest.val)

\* walk is what WalkDir::new(directory).sort(true) yields: filter_map(Result::ok)
\* drops the items that are errors, filter keeps the regular files
scan_directory(directory, walk) ==
    LET entries == Filter(walk, LAMBDA e : e.res = "ok")
        files   == Filter(entries, LAMBDA e : e.kind = "file")
    IN  collect([i \in 1..Len(files) |-> extract_file_info(directory, files[i])])

\* the items of the walk of a tree under root: the root directory itself,
\* then the entries of the tree in sorted order. An entry whose type cannot
\* be read, or a directory that cannot be listed, comes as an error, and the
\* entries below a directory that cannot be listed do not come at all
WalkDir(root, tree) ==
    LET Listed(e) == \A j \in 1..Len(tree) :
                        (/\ tree[j].kind = "dir"
                         /\ tree[j].walk = "err"
                         /\ IsPrefix(tree[j].rel, e.rel)) => tree[j].rel = e.rel
        yielded == Filter(tree, Listed)
    IN  <<[res |-> "ok", path |-> root, kind |-> "dir", meta |-> "ok", len |-> 0]>>
        \o [i \in 1..Len(yielded) |->
               [res |-> yielded[i].walk, path |-> root \o yielded[i].rel,
                kind |-> yielded[i].kind, meta |-> yielded[i].meta,
                len |-> yielded[i].len]]

\* nothing has been scanned
NoScan == [root |-> <<>>, tree |-> <<>>, result |-> None]

(* ui/app.rs and ui/pages/write_page.rs *)

WriteData(category, directory, drive, drive_available_space) ==
    [category |-> category, directory |-> directory, drive |-> drive,
     drive_available_space |-> drive_available_space]

\* WriteData::default()
WriteData_default == WriteData("", None, "", 0)

is_complete(write_data) ==
    write_data.directory # None /\ write_data.category # "" /\ write_data.drive # ""

\* WritePage::new; run numbers the indexing run the page is in (0: none yet),
\* submitted keeps the form as it was when that run was accepted and had the
\* number of files its (category, drive) pair had stored then
NewWritePage == [state |-> "Ready", files_indexed |-> 0,
                 write_data |-> WriteData_default, run |-> 0,
                 submitted |-> WriteData_default, had |-> 0]

IndexingStates == {"Ready", "CleaningDatabase", "Scanning", "Saving", "Completed"}

\* ListerApp::new shows the read page; failed is the operation that returned
\* Err in the latest step and popup the error dialog that step has shown
\* ("none" when there is none), runs counts the WriteSubmit messages that
\* were accepted
NewApp == [current_page |-> "Read", failed |-> "none", popup |-> "none", runs |-> 0]

NoIndexing ==
    /\ scan = NoScan
    /\ app = NewApp
    /\ write_page = NewWritePage
    /\ write_tasks = {}

NoOp == [op |-> "none", ok |-> TRUE, returned |-> 0]

NoDedup == [pc |-> "idle", category |-> "", drive |-> "", files |-> <<>>,
            had |-> 0, total1 |-> 0, found1 |-> 0, total2 |-> 0, found2 |-> 0]

NoResp == [op |-> "none", drive |-> None, query |-> None, page |-> 0, size |-> 0,
           out |-> None]

\* no transaction is open
NoTx == [pc |-> "idle", category |-> "", drive |-> [name |-> "", available_space |-> 0],
         files |-> <<>>, done |-> 0, st |-> EmptyStore, category_id |-> 0,
         drive_id |-> 0, observed |-> FALSE]

\* the two threads that may write at the same time
Writers == {1, 2}

\* a thread that is not writing; result is what its latest write returned
IdleWriter == [pc |-> "idle", op |-> "none", category |-> "",
               drive |-> [name |-> "", available_space |-> 0], files |-> <<>>,
               st |-> EmptyStore, val |-> 0, result |-> "none"]

NoWriters == writers = [w \in Writers |-> IdleWriter]

\* the threads that may read at the same time
Readers == 1..MaxReaders

\* a thread that is not reading; result and out are what its latest read
\* returned
IdleReader == [pc |-> "idle", op |-> "none", query |-> None, result |-> "none",
               out |-> None, page |-> 0, count |-> 0, total |-> 0]

NoReaders == readers = [r \in Readers |-> IdleReader]

SetStore(st) ==
    /\ file_categories' = st.file_categories
    /\ drive_entries' = st.drive_entries
    /\ file_entries' = st.file_entries

Init ==
    /\ file_categories = <<>>
    /\ drive_entries = <<>>
    /\ file_entries = <<>>
    /\ last = NoOp
    /\ cache = Cache_new
    /\ resp = NoResp
    /\ dedup = NoDedup
    /\ tx = NoTx
    /\ NoWriters
    /\ NoReaders
    /\ NoIndexing
    /\ ReadPageClosed

Save(c, d, s, fs, fail) ==
    /\ Len(file_entries) + Len(fs) <= MaxFiles
    /\ \/ Len(drive_entries) < MaxDrives
       \/ \E dr \in Range(drive_entries), ca \in Range(file_categories) :
             dr.name = d /\ dr.category_id = ca.id /\ ca.name = c
    /\ LET r == save(CurrentStore, c, Drive(d, s), fs, fail)
       IN  /\ SetStore(r.st)
           /\ last' = [op |-> "save", ok |-> r.ok, returned |-> r.val]
           /\ UNCHANGED <<queryVars, dedup, readVars, tx, poolVars, indexVars>>

RemoveDuplicates(c, d, fail) ==
    LET r == remove_duplicates(CurrentStore, c, d, fail)
    IN  /\ SetStore(r.st)
        /\ last' = [op |-> "remove_duplicates", ok |-> r.ok, returned |-> 0]
        /\ UNCHANGED <<queryVars, dedup, readVars, tx, poolVars, indexVars>>

Next ==
    \/ \E c \in Categories, d \in DriveNames, s \in Spaces, fs \in Batches,
          fail \in FailPoints \ {"delete"} :
            Save(c, d, s, fs, fail)
    \/ \E c \in Categories, d \in DriveNames, fail \in {"none", "connection", "delete"} :
            RemoveDuplicates(c, d, fail)

Spec == Init /\ [][Next]_vars

-----------------------------------------------------------------------------
(* The query engine and the cache over a catalog that does not change *)

\* the batches the catalogs of the query specification are built from
QueryBatches == { <<FileEntry(<<"a">>, 1)>>,
                  <<FileEntry(<<"a", "b">>, 1), FileEntry(<<"b", "a">>, 2),
                    FileEntry(<<"b">>, 3)>> }

\* a catalog written by three indexing runs
CatalogOf(b1, b2, b3) ==
    LET s1 == save(EmptyStore, "Work", Drive("Disk1", 1), b1, "none").st
        s2 == save(s1, "Home", Drive("Disk1", 2), b2, "none").st
    IN  save(s2, "Work", Drive("Disk2", 1), b3, "none").st

DriveFilters == {None} \cup { Some(d) : d \in DriveNames }
QueryTexts   == { <<>>, <<"a">>, <<"a", "b">> }
Queries      == {None} \cup { Some(q) : q \in QueryTexts }
PageSizes    == {1, ITEMS_PER_PAGE}
Pages        == 0..MaxPage

InitQuery ==
    /\ \E b1 \in QueryBatches, b3 \in QueryBatches :
          LET st == CatalogOf(b1, <<FileEntry(<<"a">>, 1)>>, b3)
          IN  /\ file_categories = st.file_categories
              /\ drive_entries = st.drive_entries
              /\ file_entries = st.file_entries
    /\ last = NoOp
    /\ cache = Cache_new
    /\ resp = NoResp
    /\ dedup = NoDedup
    /\ tx = NoTx
    /\ NoWriters
    /\ NoReaders
    /\ NoIndexing
    /\ ReadPageClosed

Count(d, q) ==
    /\ resp' = [op |-> "count", drive |-> d, query |-> q, page |-> 0, size |-> 0,
                out |-> Some(get_search_count(CurrentStore, d, q))]
    /\ UNCHANGED <<storeVars, last, cache, dedup, readVars, tx, poolVars, indexVars>>

Search(d, q, page, size) ==
    /\ resp' = [op |-> "search", drive |-> d, query |-> q, page |-> page, size |-> size,
                out |-> Some(search_files(CurrentStore, d, q, page, size))]
    /\ UNCHANGED <<storeVars, last, cache, dedup, readVars, tx, poolVars, indexVars>>

\* a result set at or below the threshold is fetched whole and cached under its key
CacheStore(d, text) ==
    LET count == count_search_results(CurrentStore, d, Some(text))
    IN  /\ count <= CACHED_SIZE
        /\ cache' = Cache_store(cache, d, text,
                        search_files_paginated(CurrentStore, d, Some(text), 0, count))
        /\ UNCHANGED <<storeVars, last, resp, dedup, readVars, tx, poolVars, indexVars>>

CacheClear ==
    /\ cache' = Cache_clear(cache)
    /\ UNCHANGED <<storeVars, last, resp, dedup, readVars, tx, poolVars, indexVars>>

CacheGetPage(d, text, page, size) ==
    /\ resp' = [op |-> "get_page", drive |-> d, query |-> Some(text), page |-> page,
                size |-> size, out |-> get_page(cache, d, text, page, size)]
    /\ UNCHANGED <<storeVars, last, cache, dedup, readVars, tx, poolVars, indexVars>>

\* the query service that fetches small result sets whole and slices them
ServiceSearch(text, page, size) ==
    /\ resp' = [op |-> "service_search", drive |-> None, query |-> Some(text),
                page |-> page, size |-> size,
                out |-> Some(FileQueryService_search_files(CurrentStore, text, page,
                                                           size).items)]
    /\ UNCHANGED <<storeVars, last, cache, dedup, readVars, tx, poolVars, indexVars>>

NextQuery ==
    \/ \E d \in DriveFilters, q \in Queries : Count(d, q)
    \/ \E d \in DriveFilters, q \in Queries, page \in Pages, size \in PageSizes :
            Search(d, q, page, size)

\* count and search on a catalog that does not change
SpecQuery == InitQuery /\ [][NextQuery]_vars

NextCache ==
    \/ \E d \in DriveFilters, text \in QueryTexts : CacheStore(d, text)
    \/ CacheClear
    \/ \E d \in DriveFilters, text \in QueryTexts, page \in Pages, size \in PageSizes :
            CacheGetPage(d, text, page, size)
    \/ \E text \in QueryTexts, page \in Pages, size \in PageSizes :
            ServiceSearch(text, page, size)

\* the cache filled from, and compared with, a catalog that does not change
SpecCache == InitQuery /\ [][NextCache]_vars

-----------------------------------------------------------------------------
(* Re-indexing: a caller that runs [remove_duplicates(c, d); save(c, d, _, files)]
   twice in a row, starting from a catalog that earlier runs have written *)

\* the catalogs left by up to two earlier indexing runs
EarlierCatalogs ==
    LET Runs == Categories \X DriveNames \X (Batches \ {<<>>})
        After(st, r) == save(st, r[1], Drive(r[2], 1), r[3], "none").st
    IN  {EmptyStore} \cup { After(EmptyStore, r) : r \in Runs }
                     \cup { After(After(EmptyStore, r1), r2) : r1 \in Runs, r2 \in Runs }

\* the files found for a (category, drive) pair
FilesFound(st, c, d) ==
    Cardinality({ f \in Range(st.file_entries) :
                    \E dr \in Range(st.drive_entries), ca \in Range(st.file_categories) :
                        /\ dr.id = f.drive_id /\ dr.category_id = ca.id
                        /\ dr.name = d /\ ca.name = c })

InitDedup ==
    /\ \E st \in EarlierCatalogs :
          /\ file_categories = st.file_categories
          /\ drive_entries = st.drive_entries
          /\ file_entries = st.file_entries
    /\ \E c \in Categories, d \in DriveNames, fs \in Batches :
          dedup = [NoDedup EXCEPT !.pc = "start", !.category = c, !.drive = d,
                                  !.files = fs,
                                  !.had = FilesFound(CurrentStore, c, d)]
    /\ last = NoOp
    /\ cache = Cache_new
    /\ resp = NoResp
    /\ ReadPageClosed
    /\ tx = NoTx
    /\ NoWriters
    /\ NoReaders
    /\ NoIndexing

DedupRemove ==
    /\ dedup.pc \in {"start", "saved1"}
    /\ LET r == remove_duplicates(CurrentStore, dedup.category, dedup.drive, "none")
       IN  /\ SetStore(r.st)
           /\ last' = [op |-> "remove_duplicates", ok |-> r.ok, returned |-> 0]
    /\ dedup' = [dedup EXCEPT !.pc = IF @ = "start" THEN "removed1" ELSE "removed2"]
    /\ UNCHANGED <<queryVars, readVars, tx, poolVars, indexVars>>

DedupSave(s) ==
    /\ dedup.pc \in {"removed1", "removed2"}
    /\ LET r == save(CurrentStore, dedup.category, Drive(dedup.drive, s), dedup.files,
                     "none")
           total == Len(r.st.file_entries)
           found == FilesFound(r.st, dedup.category, dedup.drive)
       IN  /\ SetStore(r.st)
           /\ last' = [op |-> "save", ok |-> r.ok, returned |-> r.val]
           /\ dedup' = IF dedup.pc = "removed1"
                       THEN [dedup EXCEPT !.pc = "saved1", !.total1 = total,
                                          !.found1 = found]
                       ELSE [dedup EXCEPT !.pc = "saved2", !.total2 = total,
                                          !.found2 = found]
    /\ UNCHANGED <<queryVars, readVars, tx, poolVars, indexVars>>

NextDedup ==
    \/ DedupRemove
    \/ \E s \in Spaces : DedupSave(s)

SpecDedup == InitDedup /\ [][NextDedup]_vars

\* C6: running the pair [remove_duplicates(c, d); save(c, d, _, files)] twice in
\* a row leaves the same total number of File rows, and the same number of
\* files found for (c, d), as running it once.
C6_DedupIdempotence ==
    dedup.pc = "saved2" =>
        /\ dedup.total2 = dedup.total1
        /\ dedup.found2 = dedup.found1

\* the pair has run twice on a catalog that already held files of the pair
\* and files of another pair
C6_Witness ==
    /\ dedup.pc = "saved2"
    /\ dedup.had > 0
    /\ dedup.files # <<>>
    /\ dedup.total2 > dedup.found2

-----------------------------------------------------------------------------
(* The read page over a catalog that does not change *)

\* three files that match "a" (two of them also "b") on one drive and two more
\* that match "b" on another
ReadCatalog ==
    LET s1 == save(EmptyStore, "Work", Drive("Disk1", 1),
                   <<FileEntry(<<"a">>, 1), FileEntry(<<"a", "b">>, 1),
                     FileEntry(<<"b", "a">>, 2)>>, "none").st
    IN  save(s1, "Home", Drive("Disk2", 2),
             <<FileEntry(<<"b">>, 3), FileEntry(<<"b", "b">>, 1)>>, "none").st

SearchTexts == { <<>>, <<"a">>, <<"b">> }
PageInputs  == { "", "2" }

\* the number of pages of the result set of a search text
PagesOf(text) ==
    LET n == IF text = <<>> THEN Len(file_entries)
             ELSE count_search_results(CurrentStore, None, Some(text))
    IN  IF n = 0 THEN 1 ELSE (n + ITEMS_PER_PAGE - 1) \div ITEMS_PER_PAGE

\* a load that has just been started; old tells that the page that started
\* it has been replaced since
InFlight(task) ==
    [task_id |-> task.task_id, search_query |-> task.search_query,
     page |-> task.page, stale |-> FALSE, old |-> FALSE]

InitRead ==
    /\ file_categories = ReadCatalog.file_categories
    /\ drive_entries = ReadCatalog.drive_entries
    /\ file_entries = ReadCatalog.file_entries
    /\ last = NoOp
    /\ cache = Cache_new
    /\ resp = NoResp
    /\ dedup = NoDedup
    /\ tx = NoTx
    /\ NoWriters
    /\ NoReaders
    /\ NoIndexing
    /\ LET r == load_current_page(NewReadPage)
       IN  /\ read_page = r.page
           /\ tasks = { InFlight(r.task[1]) }
    /\ read_event = NoEvent
    /\ pagination = Pagination_new(ITEMS_PER_PAGE)

\* a search or page request: the message went through load_current_page
Requested(r) ==
    /\ r.task # None => r.page.active_task_id <= MaxTasks
    /\ read_page' = r.page
    /\ tasks' = { [t EXCEPT !.stale = TRUE] : t \in tasks }
                 \cup (IF r.task = None THEN {} ELSE { InFlight(r.task[1]) })
    /\ read_event' =
          [kind |-> "request",
           live |-> /\ read_page.cached_results # None
                    /\ read_page.cached_query = Some(r.page.search_query),
           in_range |-> r.page.current_page_index < PagesOf(r.page.search_query),
           over |-> /\ r.page.search_query # <<>>
                    /\ count_search_results(CurrentStore, None,
                                             Some(r.page.search_query)) > CACHED_SIZE,
           stale |-> FALSE]
    /\ UNCHANGED <<storeVars, last, queryVars, dedup, pagination, tx, poolVars, indexVars>>

\* the buttons are enabled as pagination_section enables them
PrevPage ==
    /\ read_page.current_page_index > 0
    /\ Requested(previous_page(read_page))

NextPage ==
    /\ read_page.current_page_index < saturating_sub(total_pages(read_page), 1)
    /\ Requested(next_page(read_page))

FirstPage ==
    /\ read_page.current_page_index > 0
    /\ Requested(navigate_to_page(read_page, 0))

LastPage ==
    /\ read_page.current_page_index < saturating_sub(total_pages(read_page), 1)
    /\ Requested(navigate_to_page(read_page, saturating_sub(total_pages(read_page), 1)))

SearchSubmit ==
    Requested(process_new_search([read_page EXCEPT !.submitted = read_page.search_query]))

SearchClear ==
    Requested(process_new_search([read_page EXCEPT !.search_query = <<>>,
                                                   !.submitted = <<>>]))

PageInputSubmit ==
    LET parsed == ParseUsize(read_page.page_input_value)
    IN  /\ parsed # None /\ parsed[1] > 0 /\ parsed[1] <= total_pages(read_page)
        /\ Requested(process_page_input(read_page))

ArrowLeftPressed(shift) ==
    /\ read_page.current_page_index > 0
    /\ Requested(handle_left(read_page, shift))

ArrowRightPressed(shift) ==
    /\ read_page.current_page_index < saturating_sub(total_pages(read_page), 1)
    /\ Requested(handle_right(read_page, shift))

\* messages that only edit a field
Edited(p) ==
    /\ read_page' = p
    /\ read_event' = [NoEvent EXCEPT !.kind = "edit"]
    /\ UNCHANGED <<storeVars, last, queryVars, dedup, pagination, tasks, tx, poolVars,
                   indexVars>>

ContentChanged(content) == Edited([read_page EXCEPT !.search_query = content])

PageInputChanged(page_number) ==
    Edited([read_page EXCEPT !.page_input_value = page_number])

\* a page-number input that process_page_input rejects
PageInputRejected ==
    /\ process_page_input(read_page).task = None
    /\ process_page_input(read_page).page = read_page
    /\ Edited(read_page)

\* a load completes and its FilesLoaded message is handled
FilesLoaded(t) ==
    /\ t \in tasks
    /\ read_page' = handle_files_loaded(read_page, t.task_id, LoadResult(CurrentStore, t))
    /\ tasks' = tasks \ {t}
    /\ read_event' = [NoEvent EXCEPT
                          !.kind = IF t.task_id = read_page.active_task_id
                                   THEN "applied" ELSE "discarded",
                          !.stale = t.stale]
    /\ UNCHANGED <<storeVars, last, queryVars, dedup, pagination, tx, poolVars, indexVars>>

NextRead ==
    \/ PrevPage
    \/ NextPage
    \/ FirstPage
    \/ LastPage
    \/ SearchSubmit
    \/ SearchClear
    \/ PageInputSubmit
    \/ PageInputRejected
    \/ \E shift \in BOOLEAN : ArrowLeftPressed(shift)
    \/ \E shift \in BOOLEAN : ArrowRightPressed(shift)
    \/ \E content \in SearchTexts : ContentChanged(content)
    \/ \E page_number \in PageInputs : PageInputChanged(page_number)
    \/ \E t \in tasks : FilesLoaded(t)

SpecRead == InitRead /\ [][NextRead]_vars

-----------------------------------------------------------------------------
(* Claims about the query engine (SpecQuery) and the cache (SpecCache) *)

\* the files that match a drive filter and a query, read off the tables
MatchingFileIds(st, d, q) ==
    { f.id : f \in { g \in Range(st.file_entries) :
                       /\ \E dr \in Range(st.drive_entries) :
                             /\ dr.id = g.drive_id
                             /\ d # None => dr.name = d[1]
                       /\ q # None => Like(g.path, search_pattern(q[1])) } }

CeilDiv(n, m) == (n + m - 1) \div m

FileIds(rows) == { rows[i].file.id : i \in DOMAIN rows }

\* C3: a page served from the cached result set of a key equals the page an
\* uncached offset/limit query returns for that key on the same store, and the
\* query service returns the same page below and above the caching threshold.
C3_CacheEquivalence ==
    /\ \A d \in DriveFilters, text \in QueryTexts, page \in Pages, size \in PageSizes :
          LET served == get_page(cache, d, text, page, size)
          IN  served # None =>
                served[1] = search_files_paginated(CurrentStore, d, Some(text),
                                                   page * size, size)
    /\ \A text \in QueryTexts, page \in Pages, size \in PageSizes :
          FileQueryService_search_files(CurrentStore, text, page, size).items
            = search_files_paginated(CurrentStore, None, Some(text), page * size, size)

\* a page after the first has been served from a cached result set that spans
\* several pages
C3_Witness ==
    /\ resp.op = "get_page" /\ resp.out # None /\ resp.page >= 1
    /\ cache.results # None /\ Len(cache.results[1]) > resp.size
    /\ resp.out = get_page(cache, resp.drive, resp.query[1], resp.page, resp.size)

\* C5: on an unchanged store the pages 0 .. ceil(N/P)-1 of a filter are
\* pairwise disjoint, their union is the set of the N matching files, and
\* count is N.
C5_PaginationCompleteness ==
    \A d \in DriveFilters, q \in Queries, size \in PageSizes :
        LET n     == get_search_count(CurrentStore, d, q)
            last_ == CeilDiv(n, size) - 1
            page(k) == search_rows(CurrentStore, d, q, k, size)
        IN  /\ n = Cardinality(MatchingFileIds(CurrentStore, d, q))
            /\ \A k \in 0..last_ :
                    Cardinality(FileIds(page(k))) = Len(page(k))
            /\ \A j \in 0..last_, k \in 0..last_ :
                    j # k => FileIds(page(j)) \cap FileIds(page(k)) = {}
            /\ UNION { FileIds(page(k)) : k \in 0..last_ }
                    = MatchingFileIds(CurrentStore, d, q)

\* the last of several pages of a filtered search has been returned
C5_Witness ==
    /\ resp.op = "search" /\ resp.page >= 1 /\ resp.out # None
    /\ resp.out[1] # <<>>
    /\ resp.query # None /\ resp.query[1] # <<>>
    /\ resp.page = CeilDiv(get_search_count(CurrentStore, resp.drive, resp.query),
                            resp.size) - 1

CacheConsistent ==
    /\ cache.results = None <=> cache.query = None
    /\ cache.query = None => cache.drive = None
    /\ cache.results # None =>
            cache.results[1] = search_files_paginated(CurrentStore, cache.drive,
                                   cache.query, 0, Len(file_entries))

IsSlice(part, whole) ==
    \E from \in 1..Len(whole) : \E to \in from..Len(whole) :
        part = SubSeq(whole, from, to)

\* C9: get_page returns a page only for the key the entry was stored under
\* (nothing initially, after clear, and for any other key), and the one entry
\* always holds the result set of its own key.
C9_CacheKeyed ==
    /\ []CacheConsistent
    /\ [][/\ (resp' # resp /\ resp'.op = "get_page" /\ resp'.out # None)
                   => /\ cache.drive = resp'.drive
                      /\ cache.query = resp'.query
                      /\ cache.results # None
                      /\ IsSlice(resp'.out[1], cache.results[1])
          /\ CacheClear =>
                \A d \in DriveFilters, text \in QueryTexts, page \in Pages,
                   size \in PageSizes :
                    get_page(cache', d, text, page, size) = None]_vars

\* the cache holds an entry for one drive and has refused a page of the same
\* query under another drive filter
C9_Witness ==
    /\ cache.results # None /\ cache.results[1] # <<>>
    /\ resp.op = "get_page" /\ resp.out = None
    /\ resp.query = cache.query /\ resp.drive # cache.drive
    /\ resp.page = 0

-----------------------------------------------------------------------------
(* Claims about the index writer, checked under Spec *)

\* C1: a save that returns an error, whichever step failed, leaves the
\* categories, drives and files tables exactly as they were before the call.
C1_SaveAllOrNothing ==
    [][(last'.op = "save" /\ ~last'.ok) => UNCHANGED storeVars]_vars

\* a failing save has run on a store that already holds rows
C1_Witness ==
    /\ last.op = "save" /\ ~last.ok
    /\ file_entries # <<>>

\* C2: after every successful save(c, d, s, files) every Drive row named d has
\* available_space = s, whatever its category.
C2_SpacePropagation ==
    [][\A c \in Categories, d \in DriveNames, s \in Spaces, fs \in Batches :
          (Save(c, d, s, fs, "none") /\ last'.ok)
              => \A i \in DOMAIN drive_entries' :
                    drive_entries'[i].name = d
                        => drive_entries'[i].available_space = s]_vars


-----------------------------------------------------------------------------
(* Claims about the read page (SpecRead) *)

\* a request that started a load leaves exactly one load that is not stale
IssuedQuery == \E t \in tasks' : ~t.stale

\* C4, first half: every search or page request advances active_task_id
C4_RequestAdvancesCounter ==
    [][read_event'.kind = "request"
         => read_page'.active_task_id = read_page.active_task_id + 1]_vars

\* C4, second half: a load that a later search or page request superseded is
\* never applied; a discarded load changes nothing of the page
C4_StaleNeverApplied ==
    [][/\ read_event'.kind = "applied" => ~read_event'.stale
       /\ read_event'.kind = "discarded" => read_page' = read_page]_vars

\* C4: every new search or page request advances the request-generation
\* counter, and a completed load (FilesLoaded) is applied to the displayed
\* list, the total count and the cache only if no newer search or page request
\* has been made since the load was issued; otherwise it is discarded.
C4_StaleResultGuard ==
    [][/\ read_event'.kind = "request"
            => read_page'.active_task_id = read_page.active_task_id + 1
       /\ read_event'.kind = "applied" => ~read_event'.stale
       /\ (read_event'.kind = "discarded" \/ read_event'.stale)
            => /\ read_page'.current_files = read_page.current_files
               /\ read_page'.total_count = read_page.total_count
               /\ read_page'.cached_results = read_page.cached_results
               /\ read_page'.cached_query = read_page.cached_query]_vars

\* the complete result set of a search text, in the order the store returns it
CompleteResult(text) ==
    search_files_paginated(CurrentStore, None, Some(text), 0,
                           count_search_results(CurrentStore, None, Some(text)))

\* C7: whenever a cache entry is live on the read page, its items are the
\* complete result set of its key: all files that match, as many as the count
\* reported for that key, not only the page that was requested.
C7_CacheHoldsCompleteResult ==
    read_page.cached_results # None
        => /\ read_page.cached_query # None
           /\ Len(read_page.cached_results[1])
                = count_search_results(CurrentStore, None, read_page.cached_query)
           /\ read_page.cached_results[1] = CompleteResult(read_page.cached_query[1])

\* C8: once a result set has been cached for a key, every later page request
\* for the same key, for any page of that result set, is served from memory
\* and issues no query to the store.
C8_CachedKeyServedFromMemory ==
    [][(read_event'.kind = "request" /\ read_event'.live /\ read_event'.in_range)
          => /\ ~IssuedQuery
             /\ read_page'.active_task_id = read_page.active_task_id
             /\ read_page'.cached_results = read_page.cached_results]_vars

\* C10, first half: a cache entry is stored only for a result set whose count
\* is at most CACHED_SIZE
C10_CachedOnlyUnderThreshold ==
    read_page.cached_results # None
        => /\ read_page.cached_query # None
           /\ count_search_results(CurrentStore, None, read_page.cached_query)
                <= CACHED_SIZE

\* C10, second half: a request for a key whose count exceeds CACHED_SIZE
\* issues its own query
C10_OverThresholdQueries ==
    [][(read_event'.kind = "request" /\ read_event'.over) => IssuedQuery]_vars

\* C10: a cache entry is stored only for a result set whose count is at most
\* CACHED_SIZE (boundary included); when the count exceeds CACHED_SIZE nothing
\* is cached and every page request issues its own offset/limit query.
C10_CacheThreshold ==
    /\ [](read_page.cached_results # None
            => /\ read_page.cached_query # None
               /\ count_search_results(CurrentStore, None, read_page.cached_query)
                    <= CACHED_SIZE)
    /\ [][(read_event'.kind = "request" /\ read_event'.over)
            => (IssuedQuery /\ read_page'.cached_results = None)]_vars

-----------------------------------------------------------------------------
(* Claims about remove_duplicates, checked under Spec *)

\* file row f of store st belongs to a Drive named d of a Category named c
OwnedBy(st, f, c, d) ==
    \E dr \in Range(st.drive_entries), ca \in Range(st.file_categories) :
        /\ dr.id = f.drive_id
        /\ dr.category_id = ca.id
        /\ ca.name = c
        /\ dr.name = d

\* C11: after a successful remove_duplicates(c, d) no File row remains whose
\* owning Drive is named d and has a Category named c; if those were the only
\* stored files, a following search returns no items and count 0.
C11_RemoveDuplicatesRemovesAll ==
    [][\A c \in Categories, d \in DriveNames :
          (RemoveDuplicates(c, d, "none") /\ last'.ok)
             => LET after == Store(file_categories', drive_entries', file_entries')
                IN  /\ \A f \in Range(after.file_entries) : ~OwnedBy(after, f, c, d)
                    /\ (\A f \in Range(file_entries) : OwnedBy(CurrentStore, f, c, d))
                         => /\ count_search_results(after, None, None) = 0
                            /\ \A q \in Queries :
                                  /\ count_search_results(after, None, q) = 0
                                  /\ search_files_paginated(after, None, q, 0,
                                                            ITEMS_PER_PAGE) = <<>>]_vars

\* a remove_duplicates has succeeded and removed the file with id 1 while a
\* file of another drive is still stored
C11_Witness ==
    /\ last.op = "remove_duplicates" /\ last.ok
    /\ file_entries # <<>>
    /\ \A f \in Range(file_entries) : f.id # 1

\* C12: remove_duplicates(c, d) leaves every Category row, every Drive row and
\* every File row that is not owned by (c, d) unchanged, in their order; for
\* a pair that matches no rows it succeeds and changes nothing.
C12_RemoveDuplicatesFrame ==
    [][\A c \in Categories, d \in DriveNames :
          RemoveDuplicates(c, d, "none")
             => /\ last'.ok
                /\ file_categories' = file_categories
                /\ drive_entries' = drive_entries
                /\ file_entries' =
                     Filter(file_entries, LAMBDA f : ~OwnedBy(CurrentStore, f, c, d))
                /\ (\A f \in Range(file_entries) : ~OwnedBy(CurrentStore, f, c, d))
                     => UNCHANGED storeVars]_vars

\* a remove_duplicates has succeeded on a store with two drives: it removed
\* the file of one drive and left the file of the other in place
C12_Witness ==
    /\ last.op = "remove_duplicates" /\ last.ok
    /\ Len(drive_entries) = 2
    /\ Len(file_entries) = 1
    /\ file_entries[1].id = 2

-----------------------------------------------------------------------------
(* Claims about the rows a save creates, checked under Spec *)

\* C13: every successful save creates exactly one new Drive row, also when a
\* Drive row with the same name and the same category already exists, and all
\* File rows inserted by that save reference the new row.
C13_OneDriveRowPerSave ==
    [][\A c \in Categories, d \in DriveNames, s \in Spaces, fs \in Batches :
          (Save(c, d, s, fs, "none") /\ last'.ok)
             => /\ Len(drive_entries') = Len(drive_entries) + 1
                /\ \A i \in DOMAIN drive_entries :
                      drive_entries'[i].id = drive_entries[i].id
                /\ LET new == drive_entries'[Len(drive_entries')]
                   IN  /\ new.name = d
                       /\ \A r \in Range(drive_entries) : r.id # new.id
                       /\ \A k \in (Len(file_entries) + 1)..Len(file_entries') :
                             file_entries'[k].drive_id = new.id]_vars

-----------------------------------------------------------------------------
(* Substring search over paths and queries of a wider alphabet *)

\* characters that occur in file paths, none of them a space
MatchAlphabet == {"a", "A", "_", "%"}
MatchPaths    == { <<"a">>, <<"A", "a">>, <<"a", "_">>, <<"%">>, <<"_", "a">> }
\* every query of at most two characters
MatchQueries  == {<<>>} \cup [1..1 -> MatchAlphabet] \cup [1..2 -> MatchAlphabet]

InitMatch ==
    /\ \E p1 \in MatchPaths, p2 \in MatchPaths :
          LET st == save(EmptyStore, "Work", Drive("Disk1", 1),
                         <<FileEntry(p1, 1), FileEntry(p2, 2)>>, "none").st
          IN  /\ file_categories = st.file_categories
              /\ drive_entries = st.drive_entries
              /\ file_entries = st.file_entries
    /\ last = NoOp
    /\ cache = Cache_new
    /\ resp = NoResp
    /\ dedup = NoDedup
    /\ tx = NoTx
    /\ NoWriters
    /\ NoReaders
    /\ NoIndexing
    /\ ReadPageClosed

NextMatch ==
    \/ \E text \in MatchQueries : Count(None, Some(text))
    \/ \E text \in MatchQueries : Search(None, Some(text), 0, ITEMS_PER_PAGE)

SpecMatch == InitMatch /\ [][NextMatch]_vars

\* S occurs in path as a literal substring
Contains(path, S) ==
    \E i \in 1..(Len(path) + 1) :
        /\ i + Len(S) - 1 <= Len(path)
        /\ SubSeq(path, i, i + Len(S) - 1) = S

\* C15: for a query S without a space, search and count match exactly the
\* files whose path contains S as a literal substring, for every S over the
\* path alphabet; the empty query matches every file.
C15_SubstringCorrectness ==
    \A S \in MatchQueries :
        LET expected == { f.id : f \in { g \in Range(file_entries) : Contains(g.path, S) } }
            found    == { r.file.id : r \in Range(MatchingRows(CurrentStore, None, Some(S))) }
        IN  /\ found = expected
            /\ count_search_results(CurrentStore, None, Some(S)) = Cardinality(expected)
            /\ FileIds(search_rows(CurrentStore, None, Some(S), 0, Len(file_entries)))
                 = expected

-----------------------------------------------------------------------------
(* SqliteFileRepository: the repository behind the FileQueryRepository port *)

\* fn count: with a drive, file_entries joined to drive_entries and filtered by
\* the drive name and the pattern; without, file_entries filtered by the pattern
SqliteFileRepository_count(st, selected_drive, pattern) ==
    IF selected_drive # None
    THEN Len(Filter(st.file_entries,
                    LAMBDA f : /\ \E d \in Range(st.drive_entries) :
                                     d.id = f.drive_id /\ d.name = selected_drive[1]
                               /\ Like(f.path, pattern)))
    ELSE Len(Filter(st.file_entries, LAMBDA f : Like(f.path, pattern)))

\* format!("%{}%", query.replace(" ", "_"))
SqliteFileRepository_search_pattern(query) ==
    <<"%">> \o Replace(query, " ", "_") \o <<"%">>

\* total_count comes from count with the drive filter; the items query filters
\* the joined rows by the pattern alone
SqliteFileRepository_search_files_paginated(st, selected_drive, query, offset, limit) ==
    LET pattern  == SqliteFileRepository_search_pattern(query)
        total    == SqliteFileRepository_count(st, selected_drive, pattern)
        entities == LimitOffset(
                        Filter(JoinedRows(st), LAMBDA r : Like(r.file.path, pattern)),
                        limit, offset)
        items    == [i \in DOMAIN entities |->
                        [category_name |-> entities[i].category.name,
                         drive_name |-> entities[i].drive.name,
                         path |-> entities[i].file.path,
                         size_bytes |-> entities[i].file.weight]]
    IN  PaginatedResult(items, total)

SqliteFileRepository_count_search_results(st, selected_drive, query) ==
    SqliteFileRepository_count(st, selected_drive,
                               SqliteFileRepository_search_pattern(query))

\* drive filters: none, the stored names, a name that is not stored, the empty name
SqliteDriveFilters == DriveFilters \cup { Some("Disk3"), Some("") }

SqliteSearch(d, text, offset, limit) ==
    /\ resp' = [op |-> "sqlite_search", drive |-> d, query |-> Some(text),
                page |-> offset, size |-> limit,
                out |-> Some(SqliteFileRepository_search_files_paginated(
                                CurrentStore, d, text, offset, limit))]
    /\ UNCHANGED <<storeVars, last, cache, dedup, readVars, tx, poolVars, indexVars>>

SqliteCount(d, text) ==
    /\ resp' = [op |-> "sqlite_count", drive |-> d, query |-> Some(text),
                page |-> 0, size |-> 0,
                out |-> Some(SqliteFileRepository_count_search_results(
                                CurrentStore, d, text))]
    /\ UNCHANGED <<storeVars, last, cache, dedup, readVars, tx, poolVars, indexVars>>

NextSqlite ==
    \/ \E d \in SqliteDriveFilters, text \in QueryTexts, offset \in 0..1,
          limit \in {1, MaxFiles + 1} :
            SqliteSearch(d, text, offset, limit)
    \/ \E d \in SqliteDriveFilters, text \in QueryTexts : SqliteCount(d, text)

SpecSqlite == InitQuery /\ [][NextSqlite]_vars

\* the files of store st on a drive named d (every file when d is None) whose
\* path the pattern of the query text matches
FilesOnDrive(st, d, text) ==
    { f \in Range(st.file_entries) :
        /\ Like(f.path, SqliteFileRepository_search_pattern(text))
        /\ d # None => \E dr \in Range(st.drive_entries) :
                          dr.id = f.drive_id /\ dr.name = d[1] }

\* C16: with a drive filter d every returned item has drive_name d and
\* total_count is the number of matching files on d (no items and count 0 for
\* a drive name that is not stored, the empty name included); with no drive
\* filter the files of all drives are returned.
C16_DriveFilter ==
    \A d \in SqliteDriveFilters, text \in QueryTexts :
        LET all == SqliteFileRepository_search_files_paginated(
                       CurrentStore, d, text, 0, Len(file_entries))
            on  == FilesOnDrive(CurrentStore, d, text)
        IN  /\ all.total_count = Cardinality(on)
            /\ Len(all.items) = Cardinality(on)
            /\ d # None => \A i \in DOMAIN all.items : all.items[i].drive_name = d[1]
            /\ (d # None /\ \A dr \in Range(drive_entries) : dr.name # d[1])
                 => all.items = <<>> /\ all.total_count = 0

-----------------------------------------------------------------------------
(* Claims about counts and page sizes *)

RECURSIVE ItemsOverPages(_, _, _, _, _)
\* the items of page k and of the pages after it, up to the first empty page
ItemsOverPages(st, d, q, k, size) ==
    LET items == search_files(st, d, q, k, size)
    IN  IF items = <<>> THEN <<>>
        ELSE items \o ItemsOverPages(st, d, q, k + 1, size)

\* C17: on an unchanged store count(drive, query) equals the number of items
\* that search returns for the same (drive, query) over all pages.
C17_CountMatchesSearch ==
    \A d \in DriveFilters, q \in Queries, size \in PageSizes :
        /\ get_search_count(CurrentStore, d, q)
             = Len(ItemsOverPages(CurrentStore, d, q, 0, size))
        /\ get_search_count(CurrentStore, d, q)
             = Len(search_files_paginated(CurrentStore, d, q, 0, Len(file_entries)))

\* a count with a drive filter and a query text has been returned that leaves
\* out some of the stored files and counts more than one page of them
C17_Witness ==
    /\ resp.op = "count" /\ resp.drive # None /\ resp.query # None
    /\ resp.out # None
    /\ resp.out[1] > 1
    /\ resp.out[1] < Len(file_entries)

\* C18: for N matching files and page size P, page k holds min(P, N - k*P)
\* items when k*P < N and is empty otherwise, and total_count is N for every
\* page, also for pages beyond the last one and for any page of an empty store.
C18_PageSizes ==
    \A st \in {CurrentStore, EmptyStore}, size \in PageSizes :
    \A k \in 0..(Len(st.file_entries) + 1) :
        /\ \A text \in QueryTexts :
              LET N == Cardinality(MatchingFileIds(st, None, Some(text)))
                  r == FileQueryService_search_files(st, text, k, size)
              IN  /\ r.total_count = N
                  /\ Len(r.items) = IF k * size < N THEN Min(size, N - k * size) ELSE 0
        /\ LET N == Len(st.file_entries)
               r == FileQueryService_list_files(st, k, size)
           IN  /\ r.total_count = N
               /\ Len(r.items) = IF k * size < N THEN Min(size, N - k * size) ELSE 0

\* the service has returned an empty page beyond the last page of a query
\* that matches files
C18_Witness ==
    /\ resp.op = "service_search" /\ resp.page >= 1
    /\ resp.out = Some(<<>>)
    /\ count_search_results(CurrentStore, None, resp.query) > 0
    /\ resp.page * resp.size >= count_search_results(CurrentStore, None, resp.query)

\* C19: a successful save returns the number of File rows it inserted, which
\* is the length of the batch (0 for an empty batch), and the number of stored
\* files grows by exactly that number.
C19_SaveReturnsInsertedCount ==
    [][\A c \in Categories, d \in DriveNames, s \in Spaces, fs \in Batches :
          (Save(c, d, s, fs, "none") /\ last'.ok)
             => /\ last'.returned = Len(fs)
                /\ Len(file_entries') = Len(file_entries) + Len(fs)
                /\ SubSeq(file_entries', 1, Len(file_entries)) = file_entries
                /\ \A k \in 1..Len(fs) :
                      file_entries'[Len(file_entries) + k].path = fs[k].path]_vars

\* a save has stored a batch of one file after an earlier file and returned 1
C19_Witness ==
    /\ last.op = "save" /\ last.ok
    /\ last.returned = 1
    /\ Len(file_entries) = 2

-----------------------------------------------------------------------------
(* A save that runs statement by statement in its transaction while reads run
   on other connections of the pool *)

\* a reader that sees the rows the open transaction has written so far
visible_store_dirty(committed, t) == IF t.pc # "idle" THEN t.st ELSE committed

\* execute_db_operation: the read runs on a pooled connection of its own and
\* sees the rows that have been committed
visible_store(committed, t) == committed

\* get_connection()?, then BEGIN IMMEDIATE; either may fail, with no
\* connection left in the pool or with the database locked
TxBegin(c, d, s, fs, fail) ==
    /\ tx.pc = "idle"
    /\ Len(file_entries) + Len(fs) <= MaxFiles
    /\ \/ Len(drive_entries) < MaxDrives
       \/ \E dr \in Range(drive_entries), ca \in Range(file_categories) :
             dr.name = d /\ dr.category_id = ca.id /\ ca.name = c
    /\ IF fail # "none"
       THEN /\ last' = [op |-> "save", ok |-> FALSE, returned |-> 0]
            /\ tx' = tx
       ELSE /\ last' = last
            /\ tx' = [NoTx EXCEPT !.pc = "category", !.category = c,
                                  !.drive = Drive(d, s), !.files = fs,
                                  !.st = CurrentStore]
    /\ UNCHANGED <<storeVars, queryVars, dedup, readVars, poolVars, indexVars>>

\* an Err leaves the closure: immediate_transaction rolls back
TxRollback ==
    /\ tx' = NoTx
    /\ last' = [op |-> "save", ok |-> FALSE, returned |-> 0]

TxSaveCategory(fail) ==
    /\ tx.pc = "category"
    /\ LET r == save_category(tx.st, tx.category, fail)
       IN  IF r.ok
           THEN /\ tx' = [tx EXCEPT !.pc = "drive", !.st = r.st, !.category_id = r.val]
                /\ last' = last
           ELSE TxRollback
    /\ UNCHANGED <<storeVars, queryVars, dedup, readVars, poolVars, indexVars>>

TxSaveDrive(fail) ==
    /\ tx.pc = "drive"
    /\ LET r == save_drive(tx.st, tx.drive, tx.category_id, fail)
       IN  IF r.ok
           THEN /\ tx' = [tx EXCEPT !.pc = "files", !.st = r.st, !.drive_id = r.val]
                /\ last' = last
           ELSE TxRollback
    /\ UNCHANGED <<storeVars, queryVars, dedup, readVars, poolVars, indexVars>>

\* the rows of the batch are inserted one after the other
TxSaveFile(fail) ==
    /\ tx.pc = "files"
    /\ tx.done < Len(tx.files)
    /\ IF fail = "none"
       THEN /\ tx' = [tx EXCEPT !.done = @ + 1,
                                !.st = InsertFiles(@, <<tx.files[tx.done + 1]>>,
                                                   tx.drive_id)]
            /\ last' = last
       ELSE TxRollback
    /\ UNCHANGED <<storeVars, queryVars, dedup, readVars, poolVars, indexVars>>

\* the closure returned Ok: COMMIT makes the rows visible to every connection
TxCommit ==
    /\ tx.pc = "files"
    /\ tx.done = Len(tx.files)
    /\ SetStore(tx.st)
    /\ last' = [op |-> "save", ok |-> TRUE, returned |-> Len(tx.files)]
    /\ tx' = NoTx
    /\ UNCHANGED <<queryVars, dedup, readVars, poolVars, indexVars>>

\* what a read returns on the rows it sees
ReadOn(st, op, d, q, size) ==
    CASE op = "count" -> get_search_count(st, d, q)
      [] op = "search" -> search_files(st, d, q, 0, size)
      [] op = "drive_names" -> find_all_drive_names(st)

\* a count, a search or list_drive_names issued while the transaction may be
\* open; the read returns Err when it gets no connection or when its query
\* finds the database locked
ConcurrentRead(op, d, q, fail) ==
    /\ resp' = [op |-> op, drive |-> d, query |-> q, page |-> 0, size |-> MaxFiles,
                out |-> IF fail # "none" THEN None
                        ELSE Some(ReadOn(visible_store(CurrentStore, tx), op, d, q,
                                         MaxFiles))]
    /\ tx' = IF tx.pc = "idle" THEN tx ELSE [tx EXCEPT !.observed = TRUE]
    /\ UNCHANGED <<storeVars, last, cache, dedup, readVars, poolVars, indexVars>>

\* where an operation that only takes a connection and runs one statement
\* can fail
ReadFailPoints == {"none", "connection", "busy"}

\* the runs of the concurrent scenario: a first scan of Disk1, then a scan of
\* the same drive name under another category, which rewrites the space of
\* the first row
ConcurrentRuns ==
    { [category |-> "Work", drive |-> "Disk1", space |-> 1,
       files |-> <<FileEntry(<<"a">>, 1)>>],
      [category |-> "Home", drive |-> "Disk1", space |-> 2,
       files |-> <<FileEntry(<<"a", "b">>, 1)>>],
      [category |-> "Work", drive |-> "Disk1", space |-> 1,
       files |-> <<FileEntry(<<"a", "b">>, 1), FileEntry(<<"b", "a">>, 2)>>] }

NextConcurrent ==
    \/ \E run \in ConcurrentRuns, fail \in ReadFailPoints :
          TxBegin(run.category, run.drive, run.space, run.files, fail)
    \/ \E fail \in {"none", "category"} : TxSaveCategory(fail)
    \/ \E fail \in {"none", "drive", "update"} : TxSaveDrive(fail)
    \/ \E fail \in {"none", "files0"} : TxSaveFile(fail)
    \/ TxCommit
    \/ \E op \in {"count", "search"}, fail \in ReadFailPoints :
          ConcurrentRead(op, None, None, fail)
    \/ \E fail \in ReadFailPoints :
          ConcurrentRead("drive_names", None, None, fail)

SpecConcurrent == Init /\ [][NextConcurrent]_vars

-----------------------------------------------------------------------------
(* Two write operations at the same time: each takes a pooled connection and
   runs its closure in an immediate transaction *)

\* the write operations the two threads choose from
SaveOp(c, d, s, fs) ==
    [IdleWriter EXCEPT !.op = "save", !.category = c, !.drive = Drive(d, s),
                       !.files = fs]
RemoveOp(c, d) ==
    [IdleWriter EXCEPT !.op = "remove_duplicates", !.category = c,
                       !.drive = Drive(d, 0)]
WriteOps ==
    { SaveOp("Work", "Disk1", 1, <<FileEntry(<<"a">>, 1)>>),
      SaveOp("Home", "Disk1", 2, <<FileEntry(<<"a", "b">>, 1)>>),
      RemoveOp("Work", "Disk1") }

\* the closure a write operation hands to execute_in_transaction
write_closure(st, o, fail) ==
    IF o.op = "save"
    THEN save_closure(st, o.category, o.drive, o.files, fail)
    ELSE do_remove_duplicates(st, o.category, o.drive.name, fail)

\* the write operation run alone on the store st
write_alone(st, o) ==
    IF o.op = "save"
    THEN save(st, o.category, o.drive, o.files, "none").st
    ELSE remove_duplicates(st, o.category, o.drive.name, "none").st

\* a BEGIN IMMEDIATE that takes no lock
write_lock_free_unlocked(ws, w) == TRUE

\* BEGIN IMMEDIATE takes the write lock of the database at once: it can be
\* taken when no other connection is inside a write transaction
write_lock_free(ws, w) ==
    \A o \in Writers \ {w} : ws[o].pc \notin {"open", "commit"}

\* get_connection()?; a save starts while the store has room for its files
\* and for those of the other thread
WriterStart(w, o, fail) ==
    /\ writers[w].pc = "idle"
    /\ o.op = "save" => Len(file_entries) + Len(o.files) < MaxFiles
    /\ writers' = [writers EXCEPT ![w] =
                      IF fail = "connection"
                      THEN [o EXCEPT !.result = "err"]
                      ELSE [o EXCEPT !.pc = "begin"]]
    /\ UNCHANGED <<storeVars, last, queryVars, dedup, readVars, tx, readers, indexVars>>

\* conn.immediate_transaction: BEGIN IMMEDIATE either takes the write lock or
\* returns the error of a locked database; it does not wait
WriterBegin(w, fail) ==
    /\ writers[w].pc = "begin"
    /\ writers' = [writers EXCEPT ![w] =
                      IF write_lock_free(writers, w) /\ fail = "none"
                      THEN [@ EXCEPT !.pc = "open", !.st = CurrentStore]
                      ELSE [@ EXCEPT !.pc = "idle", !.result = "err"]]
    /\ UNCHANGED <<storeVars, last, queryVars, dedup, readVars, tx, readers, indexVars>>

\* the closure runs on the connection; on Err the transaction is rolled back
WriterRun(w, fail) ==
    /\ writers[w].pc = "open"
    /\ LET r == write_closure(writers[w].st, writers[w], fail)
       IN  writers' = [writers EXCEPT ![w] =
                          IF r.ok
                          THEN [@ EXCEPT !.pc = "commit", !.st = r.st, !.val = r.val]
                          ELSE [@ EXCEPT !.pc = "idle", !.result = "err",
                                         !.st = EmptyStore]]
    /\ UNCHANGED <<storeVars, last, queryVars, dedup, readVars, tx, readers, indexVars>>

\* COMMIT
WriterCommit(w) ==
    /\ writers[w].pc = "commit"
    /\ SetStore(writers[w].st)
    /\ writers' = [writers EXCEPT ![w] =
                      [@ EXCEPT !.pc = "idle", !.result = "ok", !.st = EmptyStore]]
    /\ UNCHANGED <<last, queryVars, dedup, readVars, tx, readers, indexVars>>

WriterStep(w) ==
    \/ \E fail \in ReadFailPoints \ {"connection"} : WriterBegin(w, fail)
    \/ \E fail \in FailPoints \ {"connection"} : WriterRun(w, fail)
    \/ WriterCommit(w)

NextWriters ==
    \/ \E w \in Writers, o \in WriteOps, fail \in {"none", "connection"} :
          WriterStart(w, o, fail)
    \/ \E w \in Writers : WriterStep(w)

SpecWriters == Init /\ [][NextWriters]_vars

\* thread w commits in this step
Commits(w) ==
    /\ writers[w].pc = "commit"
    /\ writers'[w].pc = "idle"

\* C21: the effects of two concurrent writes never interleave: the store
\* changes only when a write commits, and then it becomes what that write run
\* alone makes of the store before; a write that finds the lock taken ends
\* with an error, and a write that has started can always take its next step.
C21_WritesSerialise ==
    /\ [][/\ \A w \in Writers :
                Commits(w) => CurrentStore' = write_alone(CurrentStore, writers[w])
          /\ CurrentStore' # CurrentStore => \E w \in Writers : Commits(w)
          /\ \A w \in Writers :
                (/\ writers[w].pc = "begin"
                 /\ \E o \in Writers \ {w} : writers[o].pc \in {"open", "commit"}
                 /\ writers'[w] # writers[w])
                    => writers'[w].pc = "idle" /\ writers'[w].result = "err"]_vars
    /\ [](\A w \in Writers : writers[w].pc # "idle" => ENABLED WriterStep(w))

\* a remove_duplicates found the lock taken by a save that had run its
\* closure, and returned an error while the save was still open
C21_Witness ==
    /\ writers[1].op = "save" /\ writers[1].pc = "commit"
    /\ writers[1].st # CurrentStore
    /\ writers[2].op = "remove_duplicates" /\ writers[2].pc = "idle"
    /\ writers[2].result = "err"
    /\ file_entries # <<>>

-----------------------------------------------------------------------------
(* Reads at the same time, with no write in progress: each read takes a
   connection of the pool for the time of its query *)

\* the readers that hold a connection
Holding(rs) == { r \in Readers : rs[r].pc = "running" }

\* a pool that keeps one of its connections back
pool_has_idle_short(rs) == Cardinality(Holding(rs)) < PoolSize - 1

\* Pool::builder().build(manager): the pool hands out at most PoolSize
\* connections at a time
pool_has_idle(rs) == Cardinality(Holding(rs)) < PoolSize

\* the reads the threads choose from
ReadOps == { [op |-> "count", query |-> None],
             [op |-> "search", query |-> Some(<<"a">>)],
             [op |-> "drive_names", query |-> None] }

\* a count, a search or list_drive_names is called: execute_db_operation
\* asks the pool for a connection
ReaderCall(r, o) ==
    /\ readers[r].pc = "idle"
    /\ readers' = [readers EXCEPT ![r] =
                      [IdleReader EXCEPT !.pc = "waiting", !.op = o.op,
                                         !.query = o.query]]
    /\ UNCHANGED <<storeVars, last, queryVars, dedup, readVars, tx, writers, indexVars>>

\* pool.get() returns an idle connection
ReaderGet(r) ==
    /\ readers[r].pc = "waiting"
    /\ pool_has_idle(readers)
    /\ readers' = [readers EXCEPT ![r].pc = "running"]
    /\ UNCHANGED <<storeVars, last, queryVars, dedup, readVars, tx, writers, indexVars>>

\* pool.get() has waited for the connection timeout with every connection in
\* use: it returns Err, which get_connection maps to ConnectionPool
ReaderTimeout(r) ==
    /\ readers[r].pc = "waiting"
    /\ ~pool_has_idle(readers)
    /\ readers' = [readers EXCEPT ![r].pc = "idle", ![r].result = "err"]
    /\ UNCHANGED <<storeVars, last, queryVars, dedup, readVars, tx, writers, indexVars>>

\* the query runs on the connection, which goes back to the pool when the
\* operation returns
ReaderRun(r) ==
    /\ readers[r].pc = "running"
    /\ readers' = [readers EXCEPT ![r].pc = "idle", ![r].result = "ok",
                                  ![r].out = Some(ReadOn(CurrentStore, readers[r].op,
                                                         None, readers[r].query,
                                                         ITEMS_PER_PAGE))]
    /\ UNCHANGED <<storeVars, last, queryVars, dedup, readVars, tx, writers, indexVars>>

NextReaders ==
    \/ \E r \in Readers, o \in ReadOps : ReaderCall(r, o)
    \/ \E r \in Readers : ReaderGet(r)
    \/ \E r \in Readers : ReaderTimeout(r)
    \/ \E r \in Readers : ReaderRun(r)

\* the catalog is the one two indexing runs have written; no write runs
InitReaders ==
    /\ file_categories = ReadCatalog.file_categories
    /\ drive_entries = ReadCatalog.drive_entries
    /\ file_entries = ReadCatalog.file_entries
    /\ last = NoOp
    /\ cache = Cache_new
    /\ resp = NoResp
    /\ dedup = NoDedup
    /\ tx = NoTx
    /\ NoWriters
    /\ NoReaders
    /\ NoIndexing
    /\ ReadPageClosed

SpecReaders == InitReaders /\ [][NextReaders]_vars

-----------------------------------------------------------------------------
(* The write page inside the application: the form, the indexing run and the
   tasks it starts *)

\* what the directory picker can return: nothing, or a directory with the
\* name of its last folder, its drive and the free space of the drive
Selections ==
    { None,
      Some([directory |-> "dirA", last_folder_name |-> "Work", drive_name |-> "Disk1",
            drive_available_space |-> 1]) }

\* what the user can type into the category and the drive field
TypedCategories == {"Home"}
TypedDrives == {"Disk2"}

\* the directory on disk: it holds one regular file
DirRoot(directory) == <<"/", directory>>
DirTree(directory) ==
    <<[rel |-> <<"a">>, kind |-> "file", walk |-> "ok", meta |-> "ok", len |-> 1]>>

\* what can go wrong while a directory is scanned: the metadata of its file
\* cannot be read, or the walk yields an error for it
ScanOutcomes == {"ok", "meta", "walk"}
TreeAt(directory, outcome) ==
    [i \in 1..Len(DirTree(directory)) |->
        [DirTree(directory)[i] EXCEPT
            !.meta = IF outcome = "meta" THEN "err" ELSE @,
            !.walk = IF outcome = "walk" THEN "err" ELSE @]]

\* a task the page has started; run is the run of the page that started it
WriteTask(kind, run, category, directory, drive, space, files) ==
    [kind |-> kind, run |-> run, category |-> category, directory |-> directory,
     drive |-> drive, space |-> space, files |-> files]

\* the application after a step in which nothing fails
Quiet == [app EXCEPT !.failed = "none", !.popup = "none"]

\* AppMessage::GoToRead and Ctrl+Tab on the write page: a new ReadPage, which
\* starts its first load
GoToRead ==
    /\ app.current_page = "Write"
    /\ app' = [Quiet EXCEPT !.current_page = "Read"]
    /\ LET r == load_current_page(NewReadPage)
       IN  /\ read_page' = r.page
           /\ tasks' = tasks \cup { InFlight(r.task[1]) }
    /\ read_event' = NoEvent
    /\ UNCHANGED <<storeVars, last, queryVars, dedup, pagination, tx, poolVars, scan,
                   write_page,
                   write_tasks>>

\* AppMessage::GoToWrite and Ctrl+Tab on the read page: a new WritePage; the
\* tasks of an earlier write page keep running, and so do the loads of the
\* read page that is dropped
GoToWrite ==
    /\ app.current_page = "Read"
    /\ app' = [Quiet EXCEPT !.current_page = "Write"]
    /\ write_page' = NewWritePage
    /\ read_page' = NewReadPage
    /\ tasks' = { [t EXCEPT !.old = TRUE] : t \in tasks }
    /\ read_event' = NoEvent
    /\ UNCHANGED <<storeVars, last, queryVars, dedup, pagination, tx, poolVars, scan,
                   write_tasks>>

\* WriteMessage::DirectoryPressed opens the native directory dialog, and
\* WriteMessage::DirectoryChanged brings what the user chose in it
DirectoryChanged(selected_data) ==
    /\ app.current_page = "Write"
    /\ app' = Quiet
    /\ write_page' =
         IF selected_data = None THEN write_page
         ELSE [write_page EXCEPT !.write_data =
                  WriteData(selected_data[1].last_folder_name,
                            Some(selected_data[1].directory),
                            selected_data[1].drive_name,
                            selected_data[1].drive_available_space)]
    /\ UNCHANGED <<storeVars, last, queryVars, dedup, readVars, tx, poolVars, scan,
                   write_tasks>>

CategoryChanged(value) ==
    /\ app.current_page = "Write"
    /\ app' = Quiet
    /\ write_page' = [write_page EXCEPT !.write_data.category = value]
    /\ UNCHANGED <<storeVars, last, queryVars, dedup, readVars, tx, poolVars, scan,
                   write_tasks>>

DiskChanged(value) ==
    /\ app.current_page = "Write"
    /\ app' = Quiet
    /\ write_page' = [write_page EXCEPT !.write_data.drive = value]
    /\ UNCHANGED <<storeVars, last, queryVars, dedup, readVars, tx, poolVars, scan,
                   write_tasks>>

\* submit_button: the button carries WriteSubmit when the form is complete and
\* the state is Ready
can_submit(page) == is_complete(page.write_data) /\ page.state = "Ready"

\* clean_database
clean_database(page, runs) ==
    IF page.state # "Ready" THEN [page |-> page, task |-> None]
    ELSE [page |-> [page EXCEPT !.state = "CleaningDatabase", !.run = runs + 1,
                                !.submitted = page.write_data],
          task |-> Some(WriteTask("clean", runs + 1, page.write_data.category, None,
                                  page.write_data.drive, 0, <<>>))]

\* start_indexing
start_indexing(page) ==
    IF page.state # "CleaningDatabase" THEN [page |-> page, task |-> None]
    ELSE [page |-> [page EXCEPT !.state = "Scanning"],
          task |-> IF page.write_data.directory = None THEN None
                   ELSE Some(WriteTask("scan", page.run, "", page.write_data.directory,
                                       "", 0, <<>>))]

\* insert_in_database
insert_in_database(page, files) ==
    IF page.state # "Scanning" THEN [page |-> page, task |-> None]
    ELSE [page |-> [page EXCEPT !.state = "Saving"],
          task |-> Some(WriteTask("save", page.run, page.write_data.category, None,
                                  page.write_data.drive,
                                  page.write_data.drive_available_space, files))]

\* the page and the tasks after a handler that may start a task
Started(r, done) ==
    /\ write_page' = r.page
    /\ write_tasks' = (write_tasks \ done)
                         \cup (IF r.task = None THEN {} ELSE {r.task[1]})

\* WriteMessage::WriteSubmit: a click on the submit button, or a further
\* click on it that is handled before the view is drawn again
WriteSubmit ==
    /\ app.current_page = "Write"
    /\ is_complete(write_page.write_data)
    /\ write_page.state \in {"Ready", "CleaningDatabase"}
    /\ write_page.state = "Ready" => app.runs < MaxRuns
    /\ LET c == clean_database(write_page, app.runs)
           r == IF c.task = None THEN c
                ELSE [c EXCEPT !.page.had =
                         FilesFound(CurrentStore, write_page.write_data.category,
                                    write_page.write_data.drive)]
       IN  /\ Started(r, {})
           /\ app' = [Quiet EXCEPT !.runs = IF r.task # None THEN @ + 1 ELSE @]
    /\ UNCHANGED <<storeVars, last, queryVars, dedup, readVars, tx, poolVars, scan>>

\* the task of clean_database ends: remove_duplicates has run; on Err
\* popup_error_and_exit shows the error and ends the process, on Ok
\* WriteMessage::DatabaseCleaned is delivered
CleanFinished(t, fail) ==
    /\ t \in write_tasks /\ t.kind = "clean"
    /\ LET r == remove_duplicates(CurrentStore, t.category, t.drive, fail)
       IN  /\ SetStore(r.st)
           /\ IF ~r.ok
              THEN /\ app' = [app EXCEPT !.current_page = "Exited",
                                            !.failed = "remove_duplicates",
                                            !.popup = "remove_duplicates"]
                   /\ write_tasks' = {}
                   /\ write_page' = write_page
              ELSE IF app.current_page = "Write"
              THEN LET s == start_indexing(write_page)
                   IN  /\ Started(s, {t})
                       /\ app' = Quiet
              ELSE /\ write_tasks' = write_tasks \ {t}
                   /\ write_page' = write_page
                   /\ app' = Quiet
    /\ UNCHANGED <<last, queryVars, dedup, readVars, tx, poolVars, scan>>

\* the task of start_indexing ends: scan_directory has run; on Err popup_error
\* shows the error and the scan counts as empty; then
\* WriteMessage::ScanDirectoryFinished is delivered
ScanFinished(t, outcome) ==
    /\ t \in write_tasks /\ t.kind = "scan"
    /\ LET root == DirRoot(t.directory[1])
           tree == TreeAt(t.directory[1], outcome)
           r == scan_directory(root, WalkDir(root, tree))
           scanned_files == IF r.ok THEN r.val ELSE <<>>
       IN  /\ app' = [app EXCEPT !.failed = IF r.ok THEN "none" ELSE "scan",
                                    !.popup = IF r.ok THEN "none" ELSE "scan"]
           /\ IF app.current_page = "Write"
              THEN Started(insert_in_database(write_page, scanned_files), {t})
              ELSE /\ write_tasks' = write_tasks \ {t}
                   /\ write_page' = write_page
    /\ UNCHANGED <<storeVars, last, queryVars, dedup, readVars, tx, poolVars, scan>>

\* the task of insert_in_database ends: save has run, unwrap_or(0) turns an
\* Err into the count 0; then WriteMessage::InsertInDatabaseFinished is
\* delivered
SaveFinished(t, fail) ==
    /\ t \in write_tasks /\ t.kind = "save"
    /\ LET r == save(CurrentStore, t.category, Drive(t.drive, t.space), t.files, fail)
           count == IF r.ok THEN r.val ELSE 0
       IN  /\ SetStore(r.st)
           /\ write_tasks' = write_tasks \ {t}
           /\ IF app.current_page = "Write"
              THEN write_page' = [write_page EXCEPT !.state = "Completed",
                                                    !.files_indexed = count]
              ELSE write_page' = write_page
           /\ app' = [app EXCEPT !.failed = IF r.ok THEN "none" ELSE "save",
                                 !.popup = "none"]
    /\ UNCHANGED <<last, queryVars, dedup, readVars, tx, poolVars, scan>>

\* WriteMessage::ResetForm, from the button of the Completed view
ResetForm ==
    /\ app.current_page = "Write"
    /\ write_page.state = "Completed"
    /\ app' = Quiet
    /\ write_page' = [write_page EXCEPT !.state = "Ready", !.files_indexed = 0]
    /\ UNCHANGED <<storeVars, last, queryVars, dedup, readVars, tx, poolVars, scan,
                   write_tasks>>

NextWrite ==
    \/ GoToRead
    \/ GoToWrite
    \/ \E sel \in Selections : DirectoryChanged(sel)
    \/ \E value \in TypedCategories : CategoryChanged(value)
    \/ \E value \in TypedDrives : DiskChanged(value)
    \/ WriteSubmit
    \/ \E t \in write_tasks, fail \in {"none", "connection", "delete"} :
          CleanFinished(t, fail)
    \/ \E t \in write_tasks, outcome \in ScanOutcomes : ScanFinished(t, outcome)
    \/ \E t \in write_tasks, fail \in {"none", "connection", "files0"} :
          SaveFinished(t, fail)
    \/ ResetForm

SpecWrite == Init /\ [][NextWrite]_vars

\* the tasks of the run the page is in
OwnTasks(kind) == { t \in write_tasks : t.kind = kind /\ t.run = write_page.run }

\* the tasks this step has started
StartedTasks(kind) == { t \in write_tasks' \ write_tasks : t.kind = kind }

\* C23: a scan, a save or a cleaning that fails is shown to the user as an
\* error message, once, and the failed operation is not started again by
\* the step that handles the failure.
C23_FailuresSurfaced ==
    /\ [](app.failed # "none" => app.popup = app.failed)
    /\ [][app'.failed = "scan" => StartedTasks("scan") = {}]_vars
    /\ [][app'.failed = "save" => StartedTasks("save") = {}]_vars
    /\ [][app'.failed = "remove_duplicates" => write_tasks' = {}]_vars

\* C28: within one indexing run the steps come in the order
\* remove_duplicates, scan, save: no scan is running while the
\* remove_duplicates of its run still is, and no save is running while the
\* scan or the remove_duplicates of its run still is.
C28_StepsInOrder ==
    \A t \in write_tasks, u \in write_tasks :
        t.run = u.run =>
            /\ ~(t.kind = "clean" /\ u.kind \in {"scan", "save"})
            /\ ~(t.kind = "scan" /\ u.kind = "save")

\* C29: at most one indexing run is in progress at a time: the tasks that
\* are running all belong to one run, a cleaning is started only in state
\* Ready, a scan only in state CleaningDatabase and a save only in state
\* Scanning.
C29_OneRunAtATime ==
    /\ [](\A t \in write_tasks, u \in write_tasks : t.run = u.run)
    /\ [][/\ StartedTasks("clean") # {} => write_page.state = "Ready"
          /\ StartedTasks("scan") # {} => write_page.state = "CleaningDatabase"
          /\ StartedTasks("save") # {} => write_page.state = "Scanning"]_vars

\* C30: the tasks of the run the page is in use the values the form had when
\* WriteSubmit was accepted: the pair that is cleaned is the pair the files
\* are saved under.
C30_RunUsesSubmittedForm ==
    /\ \A t \in OwnTasks("clean") :
          /\ t.category = write_page.submitted.category
          /\ t.drive = write_page.submitted.drive
    /\ \A t \in OwnTasks("scan") : t.directory = write_page.submitted.directory
    /\ \A t \in OwnTasks("save") :
          /\ t.category = write_page.submitted.category
          /\ t.drive = write_page.submitted.drive
          /\ t.space = write_page.submitted.drive_available_space

-----------------------------------------------------------------------------
(* The scanner alone: application/directory_scanner.rs *)

\* the roots handed to scan_directory: an absolute and a relative directory
ScanRoots == { <<"/", "r">>, <<"r">> }

\* the sizes of the files of the tree
Sizes == 0..MaxSize

\* the ways an entry of the tree can be: whether the walk reads it, whether
\* its metadata can be read, and its size; a directory has no size of its own
EntriesAt(rel, kind) ==
    IF kind = "dir"
    THEN { [rel |-> rel, kind |-> "dir", walk |-> w, meta |-> "ok", len |-> 0] :
             w \in {"ok", "err"} }
    ELSE { [rel |-> rel, kind |-> "file", walk |-> w, meta |-> m, len |-> n] :
             w \in {"ok", "err"}, m \in {"ok", "err"}, n \in Sizes }

OneOrNone(S) == { <<>> } \cup { <<e>> : e \in S }

\* the trees under a root, in the order sort(true) walks them: a file a, a
\* directory d and a file d/b in it
ScanTrees ==
    { p[1] \o p[2] \o p[3] :
        p \in { q \in OneOrNone(EntriesAt(<<"a">>, "file"))
                      \X OneOrNone(EntriesAt(<<"d">>, "dir"))
                      \X OneOrNone(EntriesAt(<<"d", "b">>, "file")) :
                  q[3] # <<>> => q[2] # <<>> } }

\* the regular files under the root, in walk order
RegularFiles(tree) == Filter(tree, LAMBDA e : e.kind = "file")

InitScan ==
    /\ file_categories = <<>>
    /\ drive_entries = <<>>
    /\ file_entries = <<>>
    /\ last = NoOp
    /\ cache = Cache_new
    /\ resp = NoResp
    /\ dedup = NoDedup
    /\ tx = NoTx
    /\ NoWriters
    /\ NoReaders
    /\ ReadPageClosed
    /\ scan \in { [root |-> r, tree |-> t, result |-> None] :
                    r \in ScanRoots, t \in ScanTrees }
    /\ app = NewApp
    /\ write_page = NewWritePage
    /\ write_tasks = {}

\* FileIndexingService::scan_directory on the tree
ScanDirectory ==
    /\ scan.result = None
    /\ scan' = [scan EXCEPT
                  !.result = Some(scan_directory(scan.root,
                                                 WalkDir(scan.root, scan.tree)))]
    /\ UNCHANGED <<storeVars, last, queryVars, dedup, readVars, tx, poolVars,
                   app, write_page, write_tasks>>

NextScan == ScanDirectory

SpecScan == InitScan /\ [][NextScan]_vars

\* C24: a scan that returns records returns exactly one record per regular
\* file under the root, in walk order, none for a directory; the path of a
\* record is the path of its file with the root stripped, it is not empty
\* and does not start with the separator.
C24_OneRecordPerFile ==
    (scan.result # None /\ scan.result[1].ok) =>
        LET records == scan.result[1].val
            files   == RegularFiles(scan.tree)
        IN  /\ Len(records) = Len(files)
            /\ \A i \in 1..Len(records) :
                 /\ i <= Len(files) => records[i].path = to_string_lossy(files[i].rel)
                 /\ records[i].path # <<>>
                 /\ records[i].path[1] # "/"

\* C25: a scan returns an error or the records of all the regular files
\* under the root; when the metadata of a file cannot be read the scan
\* fails with the FileMetadata error, it does not return a list without
\* that file.
C25_ErrorOrAllRecords ==
    scan.result # None =>
        LET r     == scan.result[1]
            files == RegularFiles(scan.tree)
        IN  /\ r.ok => \A i \in 1..Len(files) :
                          \E k \in 1..Len(r.val) :
                              r.val[k].path = to_string_lossy(files[i].rel)
            /\ (\E i \in 1..Len(files) : files[i].meta = "err")
                  => (~r.ok /\ r.err = "FileMetadata")

-----------------------------------------------------------------------------
(* The conversions of save: readings and sizes over the whole u64 range *)

\* what save is called with: a free-space reading and the sizes of the
\* scanned files, each small, the largest that fits an i64, the first that
\* does not, or the largest u64
ConvertRuns ==
    { [space |-> 1,           files |-> <<>>],
      [space |-> I64_MAX,     files |-> <<FileEntry(<<"a">>, I64_MAX)>>],
      [space |-> I64_MAX + 1, files |-> <<FileEntry(<<"b">>, U64_MAX)>>],
      [space |-> U64_MAX,     files |-> <<FileEntry(<<"a">>, I64_MAX + 1)>>] }

NextConvert ==
    \E c \in Categories, d \in DriveNames, r \in ConvertRuns :
        Save(c, d, r.space, r.files, "none")

SpecConvert == Init /\ [][NextConvert]_vars

-----------------------------------------------------------------------------
(* list_drive_names over the catalogs the saves build *)

\* FileQueryService::list_drive_names: the names, or the error of the pool
ListDriveNames(fail) ==
    /\ resp' = [NoResp EXCEPT
                  !.op = "drive_names",
                  !.out = IF fail = "connection" THEN None
                          ELSE Some(find_all_drive_names(CurrentStore))]
    /\ UNCHANGED <<storeVars, last, cache, dedup, readVars, tx, poolVars, indexVars>>

\* an indexing run of a directory without files: save adds the drive row
SaveDriveRow(c, d, s) ==
    /\ Len(drive_entries) < MaxNameRows
    /\ LET r == save(CurrentStore, c, Drive(d, s), <<>>, "none")
       IN  /\ SetStore(r.st)
           /\ last' = [op |-> "save", ok |-> r.ok, returned |-> r.val]
           /\ UNCHANGED <<queryVars, dedup, readVars, tx, poolVars, indexVars>>

NextNames ==
    \/ \E c \in Categories, d \in DriveNames, s \in Spaces : SaveDriveRow(c, d, s)
    \/ \E fail \in {"none", "connection"} : ListDriveNames(fail)

SpecNames == Init /\ [][NextNames]_vars

\* C27: list_drive_names returns exactly the names of the stored drive rows,
\* each name once, in ascending order.
C27_DistinctSortedNames ==
    [][\A fail \in {"none"} :
          ListDriveNames(fail) =>
              LET names == resp'.out[1]
              IN  /\ resp'.out # None
                  /\ Range(names) = { drive_entries[i].name : i \in DOMAIN drive_entries }
                  /\ \A i, j \in DOMAIN names :
                        i < j => (names[i] # names[j] /\ NameLeq(names[i], names[j]))
      ]_vars

\* the names of a catalog with two rows of Disk1 that were stored after a
\* row of Disk2 have been listed
C27_Witness ==
    /\ resp.op = "drive_names"
    /\ resp.out = Some(<<"Disk1", "Disk2">>)
    /\ Len(drive_entries) = 3
    /\ drive_entries[1].name = "Disk2"
    /\ drive_entries[2].name = "Disk1"
    /\ drive_entries[3].name = "Disk1"

-----------------------------------------------------------------------------
(* Claims about a whole indexing run, checked under SpecWrite *)

\* C31: when an indexing run has ended, the files stored for the (category,
\* drive) pair it was accepted for are the newly scanned files of the
\* directory or the files the pair had before the run: a failed scan or a
\* failed save does not leave the pair with its files deleted and none stored.
C31_RunAllOrNothing ==
    (/\ app.current_page = "Write"
     /\ write_page.state = "Completed"
     /\ write_page.submitted.directory # None) =>
        FilesFound(CurrentStore, write_page.submitted.category,
                   write_page.submitted.drive)
            \in { write_page.had,
                  Len(RegularFiles(DirTree(write_page.submitted.directory[1]))) }

\* an indexing run with the user switching pages and editing the category
\* meanwhile; remove_duplicates succeeds (a failing one ends the process in
\* popup_error_and_exit)
NextRun ==
    \/ GoToRead
    \/ GoToWrite
    \/ \E sel \in Selections \ {None} : DirectoryChanged(sel)
    \/ \E value \in TypedCategories : CategoryChanged(value)
    \/ WriteSubmit
    \/ \E t \in write_tasks : CleanFinished(t, "none")
    \/ \E t \in write_tasks, outcome \in {"ok", "meta"} : ScanFinished(t, outcome)
    \/ \E t \in write_tasks, fail \in {"none", "files0"} : SaveFinished(t, fail)
    \/ ResetForm

\* a scan task is running
ScanPending == \E t \in write_tasks : t.kind = "scan"

\* the tasks of the write page end and their messages are delivered: the
\* runtime runs every task it was given and hands its message to update.
\* The fairness of the scan step is written out: the step is enabled exactly
\* when a scan task is running
WriteFairness ==
    /\ WF_vars(\E t \in write_tasks : CleanFinished(t, "none"))
    /\ \/ []<>(~ScanPending)
       \/ []<><<\E t \in write_tasks, outcome \in {"ok", "meta"} :
                   ScanFinished(t, outcome)>>_vars
    /\ WF_vars(\E t \in write_tasks, fail \in {"none", "files0"} : SaveFinished(t, fail))

SpecRun == Init /\ [][NextRun]_vars /\ WriteFairness

\* run r has been accepted: the page that took its WriteSubmit is cleaning
Accepted(r) == write_page.run = r /\ write_page.state = "CleaningDatabase"

\* C32: every indexing run that has been accepted eventually reaches the
\* state Completed, when every task ends and its message is delivered,
\* whatever form edits and page switches happen meanwhile.
C32_AcceptedRunCompletes ==
    \A r \in 1..MaxRuns :
        Accepted(r) ~> (write_page.run = r /\ write_page.state = "Completed")

-----------------------------------------------------------------------------
(* Claims about the read page, checked under SpecRead *)

\* C33: the load whose result will be displayed and the cached result set
\* belong to the search text that was last submitted: a page navigation made
\* after the text was edited, and before it is submitted, neither loads nor
\* displays results of the edited text.
C33_ResultsOfSubmittedQuery ==
    /\ \A t \in tasks :
          t.task_id = read_page.active_task_id => t.search_query = read_page.submitted
    /\ read_page.cached_query # None => read_page.cached_query[1] = read_page.submitted

\* C34: whenever no load is in flight, the index of the page shown is below
\* total_pages(): the page shown is not past the last page of the loaded
\* result.
C34_PageWithinResult ==
    (\A t \in tasks : t.task_id # read_page.active_task_id) =>
        read_page.current_page_index < total_pages(read_page)

-----------------------------------------------------------------------------
(* The read page while the user switches pages: ui/app.rs *)

\* AppMessage::Read(msg) while the write page is shown: the message of a
\* load that ends is dropped
ReadDropped(t) ==
    /\ app.current_page = "Write"
    /\ t \in tasks
    /\ tasks' = tasks \ {t}
    /\ UNCHANGED <<storeVars, last, queryVars, dedup, pagination, read_page, read_event, tx,
                   poolVars, indexVars>>

\* AppMessage::Read(msg) while a read page is shown goes to its update
NextPages ==
    \/ GoToWrite
    \/ Cardinality(tasks) < MaxTasks /\ GoToRead
    \/ \E t \in tasks : ReadDropped(t)
    \/ app.current_page = "Read" /\ SearchSubmit
    \/ app.current_page = "Read" /\ \E content \in SearchTexts : ContentChanged(content)
    \/ app.current_page = "Read" /\ \E t \in tasks : FilesLoaded(t)

SpecPages == InitRead /\ [][NextPages]_vars

\* C35: the result of a load that was requested by a read page that has
\* been replaced since is not applied to the page shown now.
C35_OldLoadNotApplied ==
    [][\A t \in tasks :
          (app.current_page = "Read" /\ t.old /\ FilesLoaded(t)) =>
              /\ read_page'.current_files = read_page.current_files
              /\ read_page'.total_count = read_page.total_count
              /\ read_page'.cached_results = read_page.cached_results
      ]_vars

-----------------------------------------------------------------------------
(* domain::services::FileQueryService::search_files over SqliteFileRepository,
   statement by statement, while indexing runs commit: the service counts,
   then search_files_paginated counts again and selects the items; no
   transaction spans the three statements *)

\* the items statement of search_files_paginated: the joined rows whose path
\* matches, LIMIT limit OFFSET offset
SqliteFileRepository_items(st, pattern, offset, limit) ==
    LET entities == LimitOffset(
                        Filter(JoinedRows(st), LAMBDA r : Like(r.file.path, pattern)),
                        limit, offset)
    IN  [i \in DOMAIN entities |->
            [category_name |-> entities[i].category.name,
             drive_name |-> entities[i].drive.name,
             path |-> entities[i].file.path,
             size_bytes |-> entities[i].file.weight]]

\* result.items[start..end] of the branch for small result sets
cached_slice(items, offset, page_size) ==
    LET start == offset
        end   == Min(start + page_size, Len(items))
    IN  IF start < Len(items) THEN SubSeq(items, start + 1, end) ELSE <<>>

\* search_files(query, page, ITEMS_PER_PAGE) is called
SearchFilesCall(r, text, page) ==
    /\ readers[r].pc = "idle"
    /\ readers' = [readers EXCEPT ![r] =
                      [IdleReader EXCEPT !.pc = "count", !.op = "search_files",
                                         !.query = Some(text), !.page = page]]
    /\ UNCHANGED <<storeVars, last, queryVars, dedup, readVars, tx, writers, indexVars>>

\* let count = self.query_repo.count_search_results(query).await?
SearchFilesCount(r) ==
    /\ readers[r].pc = "count"
    /\ readers' = [readers EXCEPT
                      ![r].pc = "total",
                      ![r].count = SqliteFileRepository_count_search_results(
                                       CurrentStore, None, readers[r].query[1])]
    /\ UNCHANGED <<storeVars, last, queryVars, dedup, readVars, tx, writers, indexVars>>

\* search_files_paginated: let total_count = count(...)?
SearchFilesTotal(r) ==
    /\ readers[r].pc = "total"
    /\ readers' = [readers EXCEPT
                      ![r].pc = "items",
                      ![r].total = SqliteFileRepository_count(
                                       CurrentStore, None,
                                       SqliteFileRepository_search_pattern(
                                           readers[r].query[1]))]
    /\ UNCHANGED <<storeVars, last, queryVars, dedup, readVars, tx, writers, indexVars>>

\* search_files_paginated: the items are loaded, and the service cuts the
\* page out of them when the count was at most CACHED_SIZE
SearchFilesItems(r) ==
    /\ readers[r].pc = "items"
    /\ LET pattern == SqliteFileRepository_search_pattern(readers[r].query[1])
           offset  == readers[r].page * ITEMS_PER_PAGE
           limit   == ITEMS_PER_PAGE
           count   == readers[r].count
           items   == IF count <= CACHED_SIZE
                      THEN cached_slice(
                               SqliteFileRepository_items(CurrentStore, pattern, 0, count),
                               offset, ITEMS_PER_PAGE)
                      ELSE SqliteFileRepository_items(CurrentStore, pattern, offset, limit)
       IN  readers' = [readers EXCEPT
                          ![r].pc = "idle", ![r].result = "ok",
                          ![r].out = Some(PaginatedResult(items, readers[r].total))]
    /\ UNCHANGED <<storeVars, last, queryVars, dedup, readVars, tx, writers, indexVars>>

\* one thread calls search_files while indexing runs commit
NextSearch ==
    \/ \E text \in {<<>>, <<"a">>}, page \in Pages : SearchFilesCall(1, text, page)
    \/ SearchFilesCount(1)
    \/ SearchFilesTotal(1)
    \/ SearchFilesItems(1)
    \/ \E c \in Categories, d \in DriveNames, fs \in Batches : Save(c, d, 1, fs, "none")
    \/ \E c \in Categories, d \in DriveNames : RemoveDuplicates(c, d, "none")

SpecSearch == InitReaders /\ [][NextSearch]_vars

\* C36: every PaginatedResult that search_files returns is consistent in
\* itself, also when a save or a remove_duplicates commits during the call:
\* the number of its items is min(page_size, max(0, total_count - page * page_size)).
C36_ResultConsistent ==
    \A r \in Readers :
        (readers[r].op = "search_files" /\ readers[r].pc = "idle"
            /\ readers[r].out # None)
        => LET res  == readers[r].out[1]
               rest == res.total_count - readers[r].page * ITEMS_PER_PAGE
           IN  Len(res.items) = Min(ITEMS_PER_PAGE, IF rest > 0 THEN rest ELSE 0)

-----------------------------------------------------------------------------
(* The Pagination component: its owner gives it a total_count and a page
   size and then calls its methods in any order *)

InitPagination ==
    /\ file_categories = <<>>
    /\ drive_entries = <<>>
    /\ file_entries = <<>>
    /\ last = NoOp
    /\ cache = Cache_new
    /\ resp = NoResp
    /\ dedup = NoDedup
    /\ tx = NoTx
    /\ NoWriters
    /\ NoReaders
    /\ NoIndexing
    /\ read_page = NewReadPage
    /\ tasks = {}
    /\ read_event = NoEvent
    /\ \E n \in 0..MaxTotal, size \in 1..ITEMS_PER_PAGE, input \in PageInputs :
          pagination = [Pagination_new(size) EXCEPT !.total_count = n,
                                                    !.page_input_value = input]

\* a method of the component is called; op names it
PaginationCall(op, self) ==
    /\ pagination' = [self EXCEPT !.op = op]
    /\ UNCHANGED <<storeVars, last, queryVars, dedup, read_page, tasks, read_event, tx,
                   poolVars, indexVars>>

NavigateTo(page_index) ==
    PaginationCall("navigate_to", Pagination_navigate_to(pagination, page_index))
FirstPageCall == PaginationCall("first_page", Pagination_first_page(pagination))
LastPageCall == PaginationCall("last_page", Pagination_last_page(pagination))
NextCall == PaginationCall("next", Pagination_next(pagination))
PrevCall == PaginationCall("prev", Pagination_prev(pagination))
ResetCall == PaginationCall("reset", Pagination_reset(pagination))
ClearCall == PaginationCall("clear", Pagination_clear(pagination))

NextPagination ==
    \/ \E page_index \in 0..(MaxTotal + 1) : NavigateTo(page_index)
    \/ FirstPageCall
    \/ LastPageCall
    \/ NextCall
    \/ PrevCall
    \/ ResetCall
    \/ ClearCall

SpecPagination == InitPagination /\ [][NextPagination]_vars

\* C37: after any sequence of navigate_to, first_page, last_page, next, prev,
\* reset and clear the page index of the Pagination component satisfies
\* 0 <= current_page_index < total_pages(); and a navigation that would leave
\* that range (next on the last page, prev on page 0, navigate_to(p) with
\* p >= total_pages()) returns None and leaves current_page_index unchanged.
C37_PageIndexInRange ==
    /\ [](/\ 0 <= pagination.current_page_index
          /\ pagination.current_page_index < Pagination_total_pages(pagination))
    /\ [][/\ (NextCall /\ pagination.current_page_index + 1
                              >= Pagination_total_pages(pagination))
             => /\ pagination'.ret = None
                /\ pagination'.current_page_index = pagination.current_page_index
          /\ (PrevCall /\ pagination.current_page_index = 0)
             => /\ pagination'.ret = None
                /\ pagination'.current_page_index = pagination.current_page_index
          /\ \A p \in 0..(MaxTotal + 1) :
                (NavigateTo(p) /\ p >= Pagination_total_pages(pagination))
                => /\ pagination'.ret = None
                   /\ pagination'.current_page_index = pagination.current_page_index
      ]_vars

\* navigate_to was called with the number of pages on the last of three
\* pages: it returned None and the index stayed on the last page
C37_Witness ==
    /\ pagination.op = "navigate_to" /\ pagination.ret = None
    /\ pagination.total_count = 5 /\ pagination.items_per_page = 2
    /\ pagination.current_page_index = 2

-----------------------------------------------------------------------------
(* Queries that contain spaces, over paths that contain spaces, underscores
   and letters *)

SpacePaths   == { <<"a", " ", "b">>, <<"a", "_", "b">>, <<"a", "x", "b">>, <<"a", "b">>,
                  <<"x", "a", " ", "b", "x">>, <<"b", " ">> }
SpaceQueries == { <<"a", " ", "b">>, <<" ">>, <<"b", " ">>, <<" ", " ", "b">>, <<"a", "b">> }

InitSpace ==
    /\ \E p1 \in SpacePaths, p2 \in SpacePaths :
          LET st == save(EmptyStore, "Work", Drive("Disk1", 1),
                         <<FileEntry(p1, 1), FileEntry(p2, 2)>>, "none").st
          IN  /\ file_categories = st.file_categories
              /\ drive_entries = st.drive_entries
              /\ file_entries = st.file_entries
    /\ last = NoOp
    /\ cache = Cache_new
    /\ resp = NoResp
    /\ dedup = NoDedup
    /\ tx = NoTx
    /\ NoWriters
    /\ NoReaders
    /\ NoIndexing
    /\ ReadPageClosed

NextSpace ==
    \/ \E text \in SpaceQueries : Count(None, Some(text))
    \/ \E text \in SpaceQueries : Search(None, Some(text), 0, ITEMS_PER_PAGE)
    \/ \E text \in SpaceQueries : SqliteSearch(None, text, 0, ITEMS_PER_PAGE)

SpecSpace == InitSpace /\ [][NextSpace]_vars

\* path contains the text S with any one character in the place of each space
ContainsWithGaps(path, S) ==
    \E i \in 1..(Len(path) + 1) :
        /\ i + Len(S) - 1 <= Len(path)
        /\ \A k \in 1..Len(S) : S[k] = " " \/ path[i + k - 1] = S[k]

\* C38: a space of the query is rewritten to the single-character wildcard of
\* the store: a search or a count for a query with spaces finds every file
\* whose path contains the query text with any one character in the place of
\* each space ('a b' finds 'a b', 'a_b' and 'axb'), and, the query being
\* letters and spaces, no file without a character in that place ('ab').
C38_SpaceIsWildcard ==
    (resp.op \in {"search", "sqlite_search", "count"} /\ resp.query # None)
    => LET S        == resp.query[1]
           expected == Filter(file_entries, LAMBDA f : ContainsWithGaps(f.path, S))
       IN  IF resp.op = "count"
           THEN resp.out[1] = Len(expected)
           ELSE LET items == IF resp.op = "search" THEN resp.out[1]
                             ELSE resp.out[1].items
                IN  /\ Len(items) = Len(expected)
                    /\ { items[i].path : i \in DOMAIN items }
                          = { expected[i].path : i \in DOMAIN expected }

\* the search for 'a b' has found the paths 'a_b' and 'axb'
C38_Witness ==
    /\ resp.op = "search" /\ resp.query = Some(<<"a", " ", "b">>)
    /\ { resp.out[1][i].path : i \in DOMAIN resp.out[1] }
          = { <<"a", "_", "b">>, <<"a", "x", "b">> }

-----------------------------------------------------------------------------
(* The order of the rows of a search: the SELECT of search_files_paginated
   has no ORDER BY, so the store may return the matching rows in any order *)

\* the orders in which a SELECT without ORDER BY may return rows
Orders(rows) ==
    LET n == Len(rows)
    IN  { [i \in 1..n |-> rows[f[i]]] :
            f \in { g \in [1..n -> 1..n] : \A i, j \in 1..n : g[i] = g[j] => i = j } }

\* what QueryRepository::search_files_paginated may return: LIMIT and OFFSET
\* applied to the matching rows in one of their orders
search_files_paginated_results(st, selected_drive, query, offset, limit) ==
    { MapRows(LimitOffset(rows, to_i64_or_zero(limit), to_i64_or_zero(offset)),
              FileWithMetadata) :
        rows \in Orders(MatchingRows(st, selected_drive, query)) }

\* a search is served by one execution of the SELECT
SearchServed(d, q, page, size) ==
    /\ \E items \in search_files_paginated_results(CurrentStore, d, q, page * size, size) :
          resp' = [op |-> "search", drive |-> d, query |-> q, page |-> page,
                   size |-> size, out |-> Some(items)]
    /\ UNCHANGED <<storeVars, last, cache, dedup, readVars, tx, poolVars, indexVars>>

NextOrder ==
    \E d \in {None, Some("Disk1")}, text \in {<<>>, <<"a">>}, page \in 0..1,
       size \in PageSizes :
          SearchServed(d, Some(text), page, size)

SpecOrder == InitMatch /\ [][NextOrder]_vars

====
